---- MODULE Spec2Model ----
(***************************************************************************)
(* A model of the PetKit cloud client (src/lib/petkit-api/client.mts):     *)
(* the transport retry interceptor, the session manager, the device        *)
(* registry population pass and the command dispatcher; and of a device    *)
(* of the adapter layer (src/lib/base/BaseLitterBoxDevice.mts): its poll   *)
(* timer and its status updates.                                           *)
(*                                                                         *)
(* The client is single threaded and asynchronous.  An action of the       *)
(* model is one run-to-completion step of the event loop: the code that    *)
(* runs between two I/O events (the arrival of an HTTP response, a timer,  *)
(* a call made by the adapter layer).                                      *)
(***************************************************************************)
EXTENDS Integers, Sequences, FiniteSets, TLC

\* ------------------------------------------------------------------------
\* Transport: the response-error interceptor (retry with exponential backoff)
\* ------------------------------------------------------------------------

VARIABLES
    rq,         \* the request in the transport: phase, config._retry, history
    adapter,    \* a device of the adapter layer: its poll timer and status updates
    calls,      \* the number of calls the adapter has made besides the passes
    region,     \* this.region
    baseUrl,    \* this.baseUrl
    defaults,   \* this.client.defaults: the session headers and baseURL
    session,    \* this._session
    issued,     \* the number of sessions the server has issued so far
    accountData,\* this.accountData
    entities,   \* this.petkitEntities
    pass,       \* the running getDevicesData() call and the public method around it
    tasks,      \* the _fetchDeviceData() calls in flight
    usr,        \* a login(), refreshSession() or sendApiRequest() call of the adapter
    sent,       \* the HTTP requests handed to the transport in the last step
    passRet,    \* the pass that settled in the last step, if one did
    usrRet,     \* the adapter's call that settled in the last step, if one did
    lastChk     \* the validateSession() call that completed last: what it sent

\* The errors the HTTP adapter can hand to the interceptor: error.code, whether
\* error.response is set, error.response.status and whether error.config is set.
TransportErrors ==
    { [code |-> "ECONNABORTED",     response |-> FALSE, status |-> 0,   hasConfig |-> TRUE],
      [code |-> "ENOTFOUND",        response |-> FALSE, status |-> 0,   hasConfig |-> TRUE],
      [code |-> "ECONNRESET",       response |-> FALSE, status |-> 0,   hasConfig |-> TRUE],
      [code |-> "ERR_NETWORK",      response |-> FALSE, status |-> 0,   hasConfig |-> TRUE],
      [code |-> "ERR_CANCELED",     response |-> FALSE, status |-> 0,   hasConfig |-> FALSE],
      [code |-> "ERR_BAD_REQUEST",  response |-> TRUE,  status |-> 400,hasConfig |-> TRUE],
      [code |-> "ERR_BAD_REQUEST",  response |-> TRUE,  status |-> 404,hasConfig |-> TRUE],
      [code |-> "ERR_BAD_REQUEST",  response |-> TRUE,  status |-> 499,hasConfig |-> TRUE],
      [code |-> "ERR_BAD_RESPONSE", response |-> TRUE,  status |-> 500,hasConfig |-> TRUE],
      [code |-> "ERR_BAD_RESPONSE", response |-> TRUE,  status |-> 503,hasConfig |-> TRUE] }

NoError == [code |-> "", response |-> FALSE, status |-> 0,   hasConfig |-> TRUE]

MaxRetries == 5
BaseDelay == 1000
MaxDelay == 16000

Min(a, b) == IF a <= b THEN a ELSE b

RECURSIVE Pow2(_)
Pow2(n) == IF n = 0 THEN 1 ELSE 2 * Pow2(n - 1)

\* A retry condition that takes every error status for transient.
IsTransientLax(e) ==
    \/ e.code \in {"ECONNABORTED", "ENOTFOUND", "ECONNRESET"}
    \/ (e.response /\ e.status >= 400)

\* client.mts:208-211, the errors after which a failed request is re-sent.
IsTransient(e) ==
    \/ e.code \in {"ECONNABORTED", "ENOTFOUND", "ECONNRESET"}
    \/ (e.response /\ e.status >= 500)

\* A backoff that doubles from the first retry on and has no cap.
RetryDelayUncapped(n) == BaseDelay * Pow2(n)

\* client.mts:214, the delay before retry number n (n = config._retry after ++).
RetryDelay(n) == Min(BaseDelay * Pow2(n - 1), MaxDelay)

\* client.mts:201-212, whether the interceptor re-sends the request.
ShouldRetry(e, retry) == e.hasConfig /\ retry < MaxRetries /\ IsTransient(e)

\* Strings the interceptors cut and paste are kept as sequences of their
\* characters.  The session tokens the server issues, the MD5 digest login()
\* puts into the password parameter, and the two markers of the log.
SessionTokens ==
    { << "a", "b", "c", "d", "e", "f", "g", "h", "i", "j" >>,
      << "k", "l", "m", "n", "o", "p", "q", "r", "s", "t", "u", "v" >> }
PasswordDigest == << "5", "f", "4", "d", "c", "c", "3", "b" >>
Ellipsis == << ".", ".", "." >>
Stars == << "*", "*", "*" >>
NoText == << >>

\* The request configs the client hands to axios: the session header it
\* carries, if any, and its body.  A body is the URLSearchParams object the
\* caller built; the first dispatch serialises it to a string, which is what
\* the config holds when the interceptor sends it again.
NoData == [form |-> "none", password |-> NoText]
RequestConfigs ==
    [tok : SessionTokens \cup {NoText},
     data : {NoData,
             [form |-> "params", password |-> NoText],
             [form |-> "params", password |-> PasswordDigest]}]
NoConfig == [tok |-> NoText, data |-> NoData]

AfterTransform(cfg) ==
    IF cfg.data.form = "params" THEN [cfg EXCEPT !.data.form = "string"] ELSE cfg

\* The bodies of the responses: nothing, a result without a session, the
\* result of a login or a refresh (a session with its token), an error object.
ResponseBodies ==
    {[kind |-> "none", session |-> NoText], [kind |-> "result", session |-> NoText],
     [kind |-> "error", session |-> NoText]}
        \cup {[kind |-> "result", session |-> t] : t \in SessionTokens}

\* client.mts:120-125, the value logged for a session header.
RedactToken(tok) == SubSeq(tok, 1, Min(8, Len(tok))) \o Ellipsis

\* client.mts:113-142, the lines the request interceptor logs for a config.
RequestLog(cfg) ==
    (IF cfg.tok = NoText THEN {}
     ELSE {<< "F-Session", ":" >> \o RedactToken(cfg.tok),
           << "X-Session", ":" >> \o RedactToken(cfg.tok)})
    \cup
    (IF cfg.data.form = "none" THEN {}
     ELSE IF cfg.data.password = NoText THEN {<< "data" >>}
     ELSE IF cfg.data.form = "string"
       THEN {<< "password", "=" >> \o Stars}
       ELSE {<< "password", "=" >> \o cfg.data.password})

\* client.mts:150-183, the lines the response interceptor logs for a response.
ResponseLog(body) ==
    IF body.kind = "none" THEN {<< "status" >>}
    ELSE IF body.kind = "error" THEN {<< "status" >>, << "keys" >>, << "error" >>}
    ELSE {<< "status" >>, << "keys" >>, << "result", ":" >> \o body.session}

\* client.mts:190-198, the lines the interceptor logs for a failed request.
ErrorLog(e) == IF e.response THEN {<< "status" >>, << "error" >>} ELSE {<< "code" >>}

InitRq ==
    rq = [phase |-> "idle", retry |-> 0, attempts |-> 0,
          delays |-> << >>, lastErr |-> NoError, cfg |-> NoConfig, log |-> {}]

\* What a step of the transport leaves alone.
clientVars == << adapter, calls, region, baseUrl, defaults, session, issued, accountData,
                 entities, pass, tasks, usr, sent, passRet, usrRet, lastChk >>

\* The caller hands a fresh request config to axios: client.get / client.post.
RqSend(cfg) ==
    /\ rq.phase \in {"idle", "rejected", "resolved"}
    /\ rq' = [phase |-> "inflight", retry |-> 0, attempts |-> 1,
              delays |-> << >>, lastErr |-> NoError,
              cfg |-> AfterTransform(cfg), log |-> RequestLog(cfg)]
    /\ UNCHANGED clientVars

\* client.mts:151-183, a response with a 2xx status: logged and returned.
RqResponseOk(body) ==
    /\ rq.phase = "inflight"
    /\ rq' = [rq EXCEPT !.phase = "resolved",
                         !.log = rq.log \cup ResponseLog(body)]
    /\ UNCHANGED clientVars

\* client.mts:184-222, the request failed with error e.
RqResponseError(e) ==
    /\ rq.phase = "inflight"
    /\ IF ShouldRetry(e, rq.retry)
         THEN rq' = [rq EXCEPT !.phase = "delay",
                               !.retry = rq.retry + 1,
                               !.delays = Append(rq.delays, RetryDelay(rq.retry + 1)),
                               !.lastErr = e,
                               !.log = rq.log \cup ErrorLog(e)]
         ELSE rq' = [rq EXCEPT !.phase = "rejected", !.lastErr = e,
                               !.log = rq.log \cup ErrorLog(e)]
    /\ UNCHANGED clientVars

\* client.mts:216-217, the backoff timer fires and the same config is sent again.
RqTimer ==
    /\ rq.phase = "delay"
    /\ rq' = [rq EXCEPT !.phase = "inflight", !.attempts = rq.attempts + 1,
                         !.log = rq.log \cup RequestLog(rq.cfg)]
    /\ UNCHANGED clientVars

NextRetry ==
    \/ \E cfg \in RequestConfigs : RqSend(cfg)
    \/ \E body \in ResponseBodies : RqResponseOk(body)
    \/ \E e \in TransportErrors : RqResponseError(e)
    \/ RqTimer


\* ------------------------------------------------------------------------
\* The vendor API as the client sees it: constants of constants.mts
\* ------------------------------------------------------------------------

DEVICES_LITTER_BOX == {"t3", "t4", "t5", "t6", "t7"}
LITTER_WITH_CAMERA == {"t5", "t6", "t7"}
LITTER_NO_CAMERA == {"t3", "t4"}
FEEDER_WITH_CAMERA == {"d4h", "d4sh"}
DEVICES_FEEDER == {"feeder", "feedermini", "d3", "d4", "d4s", "d4h", "d4sh"}
DEVICES_WATER_FOUNTAIN == {"w4", "w5", "ctw2", "ctw3"}
DEVICES_PURIFIER == {"k2", "k3"}
PetType == "pet"

\* ACTIONS_MAP[action].supportedDevices, for the actions the model sends.
ActionNames ==
    {"update_setting", "control_device", "manual_feed", "manual_feed_dual",
     "start_action", "mode_action", "pet_update_setting"}

SupportedDevices(action) ==
    CASE action = "update_setting" ->
             DEVICES_FEEDER \cup DEVICES_LITTER_BOX \cup DEVICES_PURIFIER
                 \cup DEVICES_WATER_FOUNTAIN
      [] action = "control_device" -> {"k2", "k3", "t3", "t4", "t5", "t6", "t7"}
      [] action = "manual_feed" -> DEVICES_FEEDER
      [] action = "manual_feed_dual" -> {"d4s", "d4sh"}
      [] action = "start_action" -> DEVICES_LITTER_BOX \cup DEVICES_PURIFIER
      [] action = "mode_action" -> {"k2"}
      [] action = "pet_update_setting" -> {PetType}
      [] OTHER -> {}

\* String.prototype.toLowerCase on the strings of the model.
ToLower(s) ==
    CASE s = "T4" -> "t4"
      [] s = "D5" -> "d5"
      [] s = "D4" -> "d4"
      [] s = "D4S" -> "d4s"
      [] s = "W5" -> "w5"
      [] s = "K2" -> "k2"
      [] s = "CN" -> "cn"
      [] s = "DE" -> "de"
      [] s = "China" -> "china"
      [] s = "CHINA" -> "china"
      [] s = "Cn" -> "cn"
      [] s = "Germany" -> "germany"
      [] OTHER -> s

\* ------------------------------------------------------------------------
\* The account on the server
\* ------------------------------------------------------------------------

\* A litter box of a known model and a feeder of a model the device groups do
\* not list, which only its name tells to be a feeder.  A device name is kept
\* as the set of the keywords it contains: deviceName.includes(k) is
\* k \in deviceName.
LitterStub == [deviceId |-> 1, deviceType |-> "T4", deviceName |-> {"pura"}]
FeederStub == [deviceId |-> 2, deviceType |-> "D5", deviceName |-> {"feeder"}]
PetStub == [petId |-> 3]

ServerFamilies ==
    << [deviceList |-> << LitterStub, FeederStub >>, petList |-> << PetStub >>] >>

\* Two more accounts: one whose only device is a purifier of the model K2, and
\* one with the feeder alone.  The purifier has the id the litter box has in
\* the first account.
PurifierStub == [deviceId |-> 1, deviceType |-> "K2", deviceName |-> {"air"}]

PurifierFamilies ==
    << [deviceList |-> << PurifierStub >>, petList |-> << PetStub >>] >>

FeederFamilies ==
    << [deviceList |-> << FeederStub >>, petList |-> << PetStub >>] >>

LitterId == LitterStub.deviceId
PurifierId == PurifierStub.deviceId
FeederId == FeederStub.deviceId
PetId == PetStub.petId
EntityIds == {LitterId, FeederId, PetId}

\* The state.box field of a detail record: absent, or a number.
NoBox == [has |-> FALSE, v |-> 0]
BoxValues == {NoBox, [has |-> TRUE, v |-> 5]}

NoEntity == [type |-> "none"]
NoSession == [id |-> 0]

\* ------------------------------------------------------------------------
\* Pure helpers of client.mts
\* ------------------------------------------------------------------------

\* A classifier that looks for the fountain before the feeder.
_getDeviceTypeCodeFountainFirst(device) ==
    LET deviceType == ToLower(device.deviceType)
        deviceName == device.deviceName
    IN  IF deviceType \in DEVICES_LITTER_BOX \/ "litter" \in deviceName
             \/ "pura" \in deviceName
          THEN "t4"
        ELSE IF deviceType \in DEVICES_WATER_FOUNTAIN \/ "fountain" \in deviceName
             \/ "water" \in deviceName
          THEN "w5"
        ELSE IF deviceType \in DEVICES_FEEDER \/ "feeder" \in deviceName
             \/ "fresh" \in deviceName
          THEN "d4"
        ELSE IF deviceType \in DEVICES_PURIFIER \/ "purifier" \in deviceName
             \/ "air" \in deviceName
          THEN "k3"
        ELSE "t4"

\* client.mts:595-619
_getDeviceTypeCode(device) ==
    LET deviceType == ToLower(device.deviceType)
        deviceName == device.deviceName
    IN  IF deviceType \in DEVICES_LITTER_BOX \/ "litter" \in deviceName
             \/ "pura" \in deviceName
          THEN "t4"
        ELSE IF deviceType \in DEVICES_FEEDER \/ "feeder" \in deviceName
             \/ "fresh" \in deviceName
          THEN "d4"
        ELSE IF deviceType \in DEVICES_WATER_FOUNTAIN \/ "fountain" \in deviceName
             \/ "water" \in deviceName
          THEN "w5"
        ELSE IF deviceType \in DEVICES_PURIFIER \/ "purifier" \in deviceName
             \/ "air" \in deviceName
          THEN "k3"
        ELSE "t4"

\* client.mts:621-634
_mapDeviceTypeCodeToName(code) ==
    CASE code = "t4" -> "Litter"
      [] code = "d4" -> "Feeder"
      [] code = "w5" -> "WaterFountain"
      [] code = "k3" -> "Purifier"
      [] OTHER -> "Unknown"

RECURSIVE Flatten(_)
Flatten(seqs) == IF seqs = << >> THEN << >> ELSE Head(seqs) \o Flatten(Tail(seqs))

\* client.mts:636-644
_collectDevices(acc) == Flatten([i \in 1..Len(acc) |-> acc[i].deviceList])

CollectPets(acc) == Flatten([i \in 1..Len(acc) |-> acc[i].petList])

SeqRange(s) == {s[i] : i \in 1..Len(s)}

RECURSIVE Distinct(_, _)
Distinct(s, seen) ==
    IF s = << >> THEN << >>
    ELSE IF Head(s) \in seen THEN Distinct(Tail(s), seen)
    ELSE << Head(s) >> \o Distinct(Tail(s), seen \cup {Head(s)})

\* client.mts:580-593, the keys of devicesByType in insertion order.
GroupCodes(deviceList) ==
    Distinct([i \in 1..Len(deviceList) |-> _getDeviceTypeCode(deviceList[i])], {})

\* client.mts:580-593, the devices grouped under one type code.
GroupOf(deviceList, code) ==
    {d \in SeqRange(deviceList) : _getDeviceTypeCode(d) = code}


\* ------------------------------------------------------------------------
\* Bounds of the model
\* ------------------------------------------------------------------------

MaxCalls == 2       \* calls of the adapter besides the passes
SessionTtl == 1     \* expiresIn of every session the server issues
MaxLogins == 2      \* sessions the server issues
MaxPasses == 1      \* population passes the adapter starts

\* ------------------------------------------------------------------------
\* Session manager
\* ------------------------------------------------------------------------

PassportUrl == "https://passport.petkt.com/"
ChinaSrv == "https://api.petkit.cn/6/"
GatewayUrl == "https://api.eu-pet.com/6/"
Unset == "unset"

Req(ep, arg, tok, by) == [ep |-> ep, arg |-> arg, tok |-> tok, by |-> by]

\* A session is kept with its age, the time since its createdAt counted up to
\* its expiresIn: tokenAge of client.mts:399-400.  How it looks to the clock:
SessionState(s) ==
    IF s = NoSession THEN "absent"
    ELSE IF s.age < s.expiresIn THEN "valid"
    ELSE "expired"

\* A check that looks only for a missing session, and one that lets a session
\* live one unit too long.
NeedsLoginAbsentOnly(s) == s = NoSession

NeedsLoginLate(s) == s = NoSession \/ s.age > s.expiresIn

\* client.mts:393-406, whether validateSession() calls login().
NeedsLogin(s) == s = NoSession \/ s.age >= s.expiresIn

\* A test that knows the domestic region by its two-letter code only.
IsDomesticCodeOnly(r) == ToLower(r) = "cn"

\* client.mts:233
IsDomestic(r) == ToLower(r) = "china" \/ ToLower(r) = "cn"

\* client.mts:279-313, login() up to its first request: the session is dropped,
\* then either the domestic gateway is bound and the login POST goes out, or
\* the region directory is asked.
LoginStartPc == IF IsDomestic(region) THEN "lgPost" ELSE "lgRegion"
LoginStartBase(base) == IF IsDomestic(region) THEN ChinaSrv ELSE base
\* A first request that asks for a refresh of the session instead.
LoginStartReqRefresh(by) == Req("refreshsession", "", defaults.sess, by)
LoginStartReq(by) ==
    IF IsDomestic(region) THEN Req("login", ChinaSrv, defaults.sess, by)
    ELSE Req("regionservers", PassportUrl, defaults.sess, by)
LoginStartLogins == IF IsDomestic(region) THEN 1 ELSE 0

\* The answers of the region directory: the list holds the configured region,
\* it does not, or the request fails.
RegionOutcomes == {"found", "notfound", "fail"}

\* client.mts:238-259, the error _getBaseUrl() throws.
RegionError(outcome) ==
    IF outcome = "notfound" THEN "PetkitRegionalServerNotFoundError" ELSE "PetkitAPIError"

\* The answers to the login POST as login() gets them from the transport: a
\* 2xx response, a response axios rejects for its status, or no response at
\* all; what the body carries and, for an error object, its code.
VendorCodes == {1, 5, 122, 125, 999}
LoginResponses ==
    { [http |-> "2xx", body |-> "session", code |-> 0],
      [http |-> "2xx", body |-> "none", code |-> 0],
      [http |-> "rejected", body |-> "none", code |-> 0],
      [http |-> "net", body |-> "none", code |-> 0] }
    \cup [http : {"2xx", "rejected"}, body : {"error"}, code : VendorCodes]

\* To a pass and to a fetch every failed login is the same failure, and so is
\* every failed directory request.
LoginVerdicts ==
    { [http |-> "2xx", body |-> "session", code |-> 0],
      [http |-> "net", body |-> "none", code |-> 0] }
RegionVerdicts == {"found", "fail"}

LoginOk(resp) == resp.http = "2xx" /\ resp.body = "session"

\* client.mts:339-350, the switch over the vendor's error code.
CodeToError(code) ==
    CASE code = 1 -> "PetkitServerBusyError"
      [] code = 5 -> "PetkitSessionExpiredError"
      [] code = 122 -> "PetkitAuthenticationError"
      [] code = 125 -> "PetkitAuthenticationError"
      [] OTHER -> "PetkitAPIError"

\* client.mts:315-353, the error login() throws for a response that is not a
\* session.  A 2xx body without a session throws inside the try block, so the
\* catch block wraps it; the code switch is reached only for a rejected
\* request (a non-2xx status) whose body carries an error object.
LoginError(resp) ==
    IF resp.http = "rejected" /\ resp.body = "error"
      THEN CodeToError(resp.code)
      ELSE "PetkitAPIError"

\* client.mts:316-328, the session a successful login installs.
NewSession == [id |-> issued + 1, age |-> 0, expiresIn |-> SessionTtl]

\* What a validateSession() call did, seen in the step in which it returns or
\* throws: the session it found, how region resolution went, the requests and
\* the login POSTs it sent, whether it returned.
NoChk == [pre |-> "none", reg |-> "none", net |-> 0, login |-> 0, ok |-> TRUE]
Chk(f, ok, reg) ==
    [pre |-> f.vPre, reg |-> reg, net |-> f.vNet, login |-> f.vLogin, ok |-> ok]
Resolved == IF IsDomestic(region) THEN "domestic" ELSE "found"

\* ------------------------------------------------------------------------
\* Device registry
\* ------------------------------------------------------------------------

StubOf(acc, id) == CHOOSE d \in SeqRange(_collectDevices(acc)) : d.deviceId = id

\* client.mts:454-467, the entity of a pet of the family list.
PetEntity(pet) ==
    [type |-> PetType, nfoType |-> PetType, nfoId |-> pet.petId, src |-> "pet",
     box |-> NoBox, rec |-> FALSE, stats |-> FALSE, graph |-> FALSE,
     live |-> FALSE, pd |-> FALSE]

\* An entity of a detail record whose device-info block lacks the record's id.
DetailEntityNoId(code, raw) ==
    [type |-> _mapDeviceTypeCodeToName(code), nfoType |-> code, nfoId |-> 0,
     src |-> "detail", box |-> raw.box, rec |-> FALSE, stats |-> FALSE,
     graph |-> FALSE, live |-> FALSE, pd |-> FALSE]

\* client.mts:544-565, the entity built from a detail record of type code `code`;
\* the fields of the record's state are spread into the entity.
DetailEntity(code, raw) ==
    [type |-> _mapDeviceTypeCodeToName(code), nfoType |-> code, nfoId |-> raw.id,
     src |-> "detail", box |-> raw.box, rec |-> FALSE, stats |-> FALSE,
     graph |-> FALSE, live |-> FALSE, pd |-> FALSE]

\* client.mts:824-829, the entity built from the answer to a main fetch: the
\* answer (a list) is spread into it, its device-info block is the stub itself.
MainEntity(stub, dataClass) ==
    [type |-> dataClass, nfoType |-> stub.deviceType, nfoId |-> stub.deviceId,
     src |-> "main", box |-> NoBox, rec |-> FALSE, stats |-> FALSE, graph |-> FALSE,
     live |-> FALSE, pd |-> FALSE]

\* The lists of detail records <code>/owndevices may return: the litter box
\* with or without a state.box, or not at all; the feeder or nothing.
DetailRecords == [id : {LitterId, FeederId}, box : BoxValues]

DetailLists(code) ==
    CASE code = "t4" -> {{}} \cup {{[id |-> LitterId, box |-> b]} : b \in BoxValues}
      [] code = "d4" -> {{}, {[id |-> FeederId, box |-> NoBox]}}
      [] code = "k3" -> {{}, {[id |-> PurifierId, box |-> NoBox]}}
      [] OTHER -> {{}}

\* client.mts:451-470
AddPets(ents, acc) ==
    [id \in EntityIds |->
        IF \E pet \in SeqRange(CollectPets(acc)) : pet.petId = id
          THEN PetEntity(CHOOSE pet \in SeqRange(CollectPets(acc)) : pet.petId = id)
          ELSE ents[id]]

\* client.mts:475-482
AddPetDetails(ents, acc) ==
    [id \in EntityIds |->
        IF ents[id] # NoEntity /\ (\E pet \in SeqRange(CollectPets(acc)) : pet.petId = id)
          THEN [ents[id] EXCEPT !.pd = TRUE]
          ELSE ents[id]]

\* A merge that writes a detail record onto the entity the registry holds and
\* keeps the device-info block it finds there.
MergeDetailOnto(ents, acc, code, detailedDevices) ==
    [id \in EntityIds |->
        IF /\ \E d \in GroupOf(_collectDevices(acc), code) : d.deviceId = id
           /\ \E raw \in detailedDevices : raw.id = id
          THEN LET e == DetailEntity(code, CHOOSE raw \in detailedDevices : raw.id = id)
               IN  IF ents[id] = NoEntity THEN e
                   ELSE [e EXCEPT !.nfoType = ents[id].nfoType, !.nfoId = ents[id].nfoId]
          ELSE ents[id]]

\* client.mts:534-573, one detail answer merged into the registry.
MergeDetail(ents, acc, code, detailedDevices) ==
    [id \in EntityIds |->
        IF /\ \E d \in GroupOf(_collectDevices(acc), code) : d.deviceId = id
           /\ \E raw \in detailedDevices : raw.id = id
          THEN DetailEntity(code, CHOOSE raw \in detailedDevices : raw.id = id)
          ELSE ents[id]]

\* client.mts:646-686, the fetches _prepareTasks() starts for one device, each
\* with the list it is pushed to.
TasksOf(device) ==
    LET deviceType == ToLower(device.deviceType)
        T(cls, list) == [dev |-> device.deviceId, cls |-> cls, list |-> list]
    IN  IF deviceType \in DEVICES_FEEDER
          THEN {T("Feeder", "main"), T("FeederRecord", "record")}
               \cup (IF deviceType \in FEEDER_WITH_CAMERA
                       THEN {T("LiveFeed", "live")} ELSE {})
        ELSE IF deviceType \in DEVICES_LITTER_BOX
          THEN {T("Litter", "main"), T("LitterRecord", "record")}
               \cup (IF deviceType \in LITTER_NO_CAMERA
                       THEN {T("LitterStats", "record")} ELSE {})
               \cup (IF deviceType \in LITTER_WITH_CAMERA
                       THEN {T("PetOutGraph", "record"), T("LiveFeed", "live")} ELSE {})
        ELSE IF deviceType \in DEVICES_WATER_FOUNTAIN
          THEN {T("WaterFountain", "main"), T("WaterFountainRecord", "record")}
        ELSE IF deviceType \in DEVICES_PURIFIER
          THEN {T("Purifier", "main")}
        ELSE {}

_prepareTasks(deviceList) == UNION {TasksOf(d) : d \in SeqRange(deviceList)}

\* client.mts:802-831
_handleDataResponse(ents, device, dataClass) ==
    LET id == device.deviceId IN
    IF dataClass \in {"FeederRecord", "LitterRecord", "WaterFountainRecord"}
      THEN IF ents[id] # NoEntity THEN [ents EXCEPT ![id].rec = TRUE] ELSE ents
    ELSE IF dataClass = "LitterStats"
      THEN IF ents[id] # NoEntity THEN [ents EXCEPT ![id].stats = TRUE] ELSE ents
    ELSE IF dataClass = "PetOutGraph"
      THEN IF ents[id] # NoEntity THEN [ents EXCEPT ![id].graph = TRUE] ELSE ents
    ELSE IF dataClass = "LiveFeed"
      THEN IF ents[id] # NoEntity THEN [ents EXCEPT ![id].live = TRUE] ELSE ents
    ELSE [ents EXCEPT ![id] = MainEntity(device, dataClass)]

\* client.mts:901-904 and 906-923: what getDevices() and getLitterStatus(id)
\* make of the registry once getDevicesData() has resolved.
WasteLevel(e) == IF e.box.has THEN e.box.v ELSE 0

getDevices(ents) == [id \in {i \in EntityIds : ents[i] # NoEntity} |-> ents[id]]

\* A lookup that hands on whatever the registry returns.
getDeviceStatusNoCheck(ents, id) ==
    [kind |-> "entity", e |-> IF id \in EntityIds THEN ents[id] ELSE NoEntity]

\* client.mts:906-913, after getDevicesData() has resolved.
getDeviceStatus(ents, id) ==
    IF id \notin EntityIds \/ ents[id] = NoEntity
      THEN [kind |-> "PetkitDeviceNotFoundError"]
      ELSE [kind |-> "entity", e |-> ents[id]]

\* client.mts:915-923
getLitterStatus(ents, id) ==
    LET device == getDeviceStatus(ents, id)
    IN  IF device.kind # "entity" THEN device
        ELSE [kind |-> "status", wasteLevel |-> WasteLevel(device.e)]

\* ------------------------------------------------------------------------
\* The population pass: getDevicesData() and the public method that awaits it
\* ------------------------------------------------------------------------

IdlePass ==
    [pc |-> "idle", gen |-> 0, stage |-> "none", idx |-> 0,
     codes |-> << >>, tok |-> 0, cause |-> "none", ret |-> << >>,
     liveFailed |-> FALSE, statsTasks |-> [ran |-> FALSE, ids |-> {}],
     \* what the pass has done so far
     inv0 |-> FALSE, lg |-> FALSE, sb |-> FALSE, asked |-> {}, seen |-> {},
     launched |-> {}, failed |-> {}, lgFail |-> FALSE,
     cached |-> FALSE, snap |-> {},
     vPre |-> "none", vNet |-> 0, vLogin |-> 0]

NoRet == [who |-> "none"]

\* A call that settles leaves its frame; what it did and returned is seen in
\* the step that settles it.
SetPass(p) ==
    IF p.pc \in {"done", "rejected"}
      THEN pass' = [IdlePass EXCEPT !.gen = p.gen] /\ passRet' = [who |-> "pass", f |-> p]
      ELSE pass' = p /\ passRet' = NoRet

ValidChk(sess) ==
    [pre |-> SessionState(sess), reg |-> "none", net |-> 0, login |-> 0, ok |-> TRUE]

\* client.mts:688-696, the entities populatePetStats() is called for.
_executeStatsTasks(ents) ==
    {id \in EntityIds : ents[id] # NoEntity /\ ents[id].type = "Litter"}

\* client.mts:514 and 499-501: the statistics phase runs (populatePetStats()
\* sends nothing), then getDevicesData() resolves.
Finish(p, ents) ==
    [p EXCEPT !.pc = "done", !.ret = ents,
              !.statsTasks = [ran |-> TRUE, ids |-> _executeStatsTasks(ents)]]
Reject(p, cause) == [p EXCEPT !.pc = "rejected", !.cause = cause]

\* The fetch _prepareTasks() starts first: its validateSession() call is the
\* one that sees the session the pass left; the later ones see what it did.
FirstTask(specs, deviceList) ==
    LET withTasks == {i \in 1..Len(deviceList) : TasksOf(deviceList[i]) # {}}
        first == CHOOSE i \in withTasks : \A j \in withTasks : i <= j
    IN  CHOOSE t \in specs : t.dev = deviceList[first].deviceId /\ t.list = "main"

\* client.mts:503-515 with 646-686 and 702-721: _fetchAdditionalDeviceData()
\* starts every fetch; each validates the session and sends its request, or
\* starts a login of its own.  With no fetch to await the pass is over.
Launch(p, sess, base, ents, acc, chk) ==
    LET deviceList == _collectDevices(acc)
        specs == _prepareTasks(deviceList)
        awaited == {t \in specs : t.list # "main"}
        p1 == [p EXCEPT !.launched = specs]
        p2 == IF awaited = {} THEN Finish(p1, ents)
              ELSE [p1 EXCEPT !.pc = "aux", !.stage = "aux"]
        by(t) == << t.dev, t.cls >>
    IN  /\ SetPass(p2)
        /\ IF specs = {}
             THEN /\ tasks' = tasks
                  /\ session' = sess
                  /\ baseUrl' = base
                  /\ sent' = {}
                  /\ lastChk' = chk
           ELSE IF NeedsLogin(sess)
             THEN /\ tasks' = tasks \cup
                        {[gen |-> p.gen, dev |-> t.dev, cls |-> t.cls, list |-> t.list,
                          pc |-> LoginStartPc,
                          vPre |-> IF t = FirstTask(specs, deviceList)
                                     THEN SessionState(sess) ELSE "absent",
                          vNet |-> 1, vLogin |-> LoginStartLogins] : t \in specs}
                  /\ session' = NoSession
                  /\ baseUrl' = LoginStartBase(base)
                  /\ sent' = {LoginStartReq(by(t)) : t \in specs}
                  /\ lastChk' = chk
           ELSE /\ tasks' = tasks \cup
                        {[gen |-> p.gen, dev |-> t.dev, cls |-> t.cls, list |-> t.list,
                          pc |-> "wait",
                          vPre |-> "none", vNet |-> 0, vLogin |-> 0] : t \in specs}
                  /\ session' = sess
                  /\ baseUrl' = base
                  /\ sent' = {Req(t.cls, t.dev, sess.id, by(t)) : t \in specs}
                  /\ lastChk' = ValidChk(sess)

\* The first request of a stage, sent with the session headers `tok`:
\* client.mts:442 (family list), 423 (pet details), 519-532 (the detail request
\* of the first type code; with no device the pass goes on to the fetches).
PassSend(p, stage, tok, sess, base, ents, acc, chk) ==
    LET codes == GroupCodes(_collectDevices(acc))
    IN  IF stage = "detail" /\ codes = << >>
          THEN Launch([p EXCEPT !.stage = stage, !.tok = tok], sess, base, ents, acc, chk)
          ELSE /\ SetPass([p EXCEPT !.pc = "wait", !.stage = stage, !.tok = tok,
                                    !.sb = TRUE,
                                    !.snap = p.snap \cup
                                        (IF stage = "account" THEN {"family"}
                                         ELSE IF stage = "petdet" THEN {"details"}
                                         ELSE {}),
                                    !.idx = IF stage = "detail" THEN 1 ELSE 0,
                                    !.codes = IF stage = "detail" THEN codes ELSE << >>,
                                    !.asked = IF stage = "detail" THEN {codes[1]} ELSE {}])
               /\ sent' = {IF stage = "account" THEN Req("family", "", tok, "pass")
                           ELSE IF stage = "petdet" THEN Req("details", "", tok, "pass")
                           ELSE Req("owndevices", codes[1], tok, "pass")}
               /\ tasks' = tasks
               /\ session' = sess
               /\ baseUrl' = base
               /\ lastChk' = chk

\* client.mts:408-417 with 393-406: getSessionHeaders() at the head of a stage.
PassEnter(p, stage, sess, base, ents, acc, chk) ==
    IF NeedsLogin(sess)
      THEN /\ SetPass([p EXCEPT !.pc = LoginStartPc, !.stage = stage,
                                !.vPre = SessionState(sess), !.vNet = 1,
                                !.vLogin = LoginStartLogins])
           /\ tasks' = tasks
           /\ session' = NoSession
           /\ baseUrl' = LoginStartBase(base)
           /\ sent' = {LoginStartReq("pass")}
           /\ lastChk' = chk
    ELSE IF sess = NoSession
      THEN /\ SetPass(Reject(p, "session"))
           /\ tasks' = tasks
           /\ session' = sess
           /\ baseUrl' = base
           /\ sent' = {}
           /\ lastChk' = ValidChk(sess)
    ELSE PassSend(p, stage, sess.id, sess, base, ents, acc, ValidChk(sess))

\* A pass that fetches the account snapshot whether or not one is cached.
PassBeginRefetch(maxPasses) ==
    /\ pass.pc = "idle"
    /\ pass.gen < maxPasses
    /\ LET p == [IdlePass EXCEPT !.gen = pass.gen + 1,
                                 !.inv0 = (SessionState(session) # "valid"),
                                 !.cached = (accountData # << >>)]
       IN  PassEnter(p, "account", session, baseUrl, entities, accountData, NoChk)
    /\ usrRet' = NoRet
    /\ UNCHANGED << rq, adapter, calls, region, defaults, issued, accountData, entities, usr >>

\* client.mts:489-497 (901-902, 906-907, 915-916): the adapter calls getDevices()
\* or a status method, which await getDevicesData() and then read the registry;
\* the pass keeps in `ret` the registry they read.
PassBegin(maxPasses) ==
    /\ pass.pc = "idle"
    /\ pass.gen < maxPasses
    /\ LET p == [IdlePass EXCEPT !.gen = pass.gen + 1,
                                 !.inv0 = (SessionState(session) # "valid"),
                                 !.cached = (accountData # << >>)]
       IN  PassEnter(p, IF accountData = << >> THEN "account" ELSE "detail",
                     session, baseUrl, entities, accountData, NoChk)
    /\ usrRet' = NoRet
    /\ UNCHANGED << rq, adapter, calls, region, defaults, issued, accountData, entities, usr >>

PassStart == PassBegin(MaxPasses)

\* client.mts:238-259 inside the login of the pass: the directory answers.
PassRegionResp(outcome) ==
    /\ pass.pc = "lgRegion"
    /\ IF outcome = "found"
         THEN /\ region' = ToLower("DE")
              /\ baseUrl' = GatewayUrl
              /\ SetPass([pass EXCEPT !.pc = "lgPost", !.vNet = pass.vNet + 1,
                                      !.vLogin = pass.vLogin + 1])
              /\ sent' = {Req("login", GatewayUrl, defaults.sess, "pass")}
              /\ lastChk' = NoChk
         ELSE /\ SetPass(Reject([pass EXCEPT !.lgFail = TRUE], "session"))
              /\ sent' = {}
              /\ lastChk' = Chk(pass, FALSE, "failed")
              /\ UNCHANGED << region, baseUrl >>
    /\ usrRet' = NoRet
    /\ UNCHANGED << rq, adapter, calls, defaults, session, issued, accountData, entities,
                    tasks, usr >>

\* client.mts:315-353 inside the login of the pass: the login POST is answered.
PassLoginResp(resp) ==
    /\ pass.pc = "lgPost"
    /\ IF LoginOk(resp)
         THEN /\ issued < MaxLogins
              /\ issued' = issued + 1
              /\ defaults' = [sess |-> NewSession.id, baseURL |-> baseUrl]
              /\ PassSend([pass EXCEPT !.lg = TRUE], pass.stage, NewSession.id,
                          NewSession, baseUrl, entities, accountData, Chk(pass, TRUE, Resolved))
         ELSE /\ SetPass(Reject([pass EXCEPT !.lgFail = TRUE], "session"))
              /\ sent' = {}
              /\ lastChk' = Chk(pass, FALSE, Resolved)
              /\ UNCHANGED << issued, defaults, session, baseUrl, tasks >>
    /\ usrRet' = NoRet
    /\ UNCHANGED << rq, adapter, calls, region, accountData, entities, usr >>

\* The answers to a request: a result, a 2xx response without one, a failure.
Outcomes == {"ok", "noresult", "fail"}
Failure(outcome, kind) == IF outcome = "ok" THEN {} ELSE {kind}

\* client.mts:442-486: the family list is answered.
PassAccountResp(outcome, families) ==
    /\ pass.pc = "wait" /\ pass.stage = "account"
    /\ LET p == [pass EXCEPT !.failed = pass.failed \cup Failure(outcome, "account")]
       IN  CASE outcome = "ok" ->
                  /\ accountData' = families
                  /\ entities' = AddPets(entities, families)
                  /\ PassEnter(p, "petdet", session, baseUrl,
                               AddPets(entities, families), families, NoChk)
             [] outcome = "noresult" ->
                  /\ UNCHANGED << accountData, entities >>
                  /\ PassEnter(p, "detail", session, baseUrl, entities, accountData, NoChk)
             [] OTHER ->
                  /\ SetPass(Reject(p, "account"))
                  /\ sent' = {}
                  /\ lastChk' = NoChk
                  /\ UNCHANGED << accountData, entities, tasks, session, baseUrl >>
    /\ usrRet' = NoRet
    /\ UNCHANGED << rq, adapter, calls, region, defaults, issued, usr >>

\* client.mts:419-436 and 474-482: the pet details are answered.
PassPetResp(outcome) ==
    /\ pass.pc = "wait" /\ pass.stage = "petdet"
    /\ LET p == [pass EXCEPT !.failed = pass.failed \cup Failure(outcome, "account")]
           ents == IF outcome = "ok" THEN AddPetDetails(entities, accountData)
                   ELSE entities
       IN  IF outcome = "fail"
             THEN /\ SetPass(Reject(p, "account"))
                  /\ sent' = {}
                  /\ lastChk' = NoChk
                  /\ UNCHANGED << entities, tasks, session, baseUrl >>
             ELSE /\ entities' = ents
                  /\ PassEnter(p, "detail", session, baseUrl, ents, accountData, NoChk)
    /\ usrRet' = NoRet
    /\ UNCHANGED << rq, adapter, calls, region, defaults, issued, accountData, usr >>

\* client.mts:525-577: the detail request of one type code is answered; the
\* loop goes on to the next code with the headers it fetched at its start.
PassDetailResp(outcome, detailedDevices) ==
    /\ pass.pc = "wait" /\ pass.stage = "detail"
    /\ detailedDevices \in DetailLists(pass.codes[pass.idx])
    /\ outcome # "ok" => detailedDevices = {}
    /\ LET code == pass.codes[pass.idx]
           ents == IF outcome = "ok"
                     THEN MergeDetail(entities, accountData, code, detailedDevices)
                     ELSE entities
           p == [pass EXCEPT !.failed = pass.failed \cup Failure(outcome, "detail"),
                             !.seen = pass.seen \cup detailedDevices]
       IN  /\ entities' = ents
           /\ IF pass.idx < Len(pass.codes)
                THEN /\ SetPass([p EXCEPT !.idx = pass.idx + 1,
                                          !.asked = pass.asked \cup {pass.codes[pass.idx + 1]}])
                     /\ sent' = {Req("owndevices", pass.codes[pass.idx + 1], pass.tok, "pass")}
                     /\ lastChk' = NoChk
                     /\ UNCHANGED << tasks, session, baseUrl >>
                ELSE Launch(p, session, baseUrl, ents, accountData, NoChk)
    /\ usrRet' = NoRet
    /\ UNCHANGED << rq, adapter, calls, region, defaults, issued, accountData, usr >>

\* ------------------------------------------------------------------------
\* The fetches of _fetchAdditionalDeviceData(): one _fetchDeviceData() each
\* ------------------------------------------------------------------------

\* A pass that goes on as soon as one of the fetches it awaits has settled.
AfterTaskRace(t, tasks1, ents1, rejected, bad) ==
    IF pass.gen # t.gen \/ pass.pc = "idle" THEN pass
    ELSE LET p == [pass EXCEPT !.failed = pass.failed \cup (IF bad THEN {"fetch"} ELSE {}),
                               !.lgFail = pass.lgFail \/ rejected]
         IN  IF p.pc # "aux" THEN p
             ELSE IF rejected /\ t.list # "main" THEN Reject(p, "fetchsession")
             ELSE IF t.list # "main" THEN Finish(p, ents1)
             ELSE p

\* client.mts:512-515: what the settling of fetch `t` means to the pass that
\* awaits the record list and then the live list (the main list is not
\* awaited).  `rejected`: the fetch threw, which only its login can make it do.
AfterTask(t, tasks1, ents1, rejected, bad) ==
    IF pass.gen # t.gen \/ pass.pc = "idle" THEN pass
    ELSE LET p == [pass EXCEPT !.failed = pass.failed \cup (IF bad THEN {"fetch"} ELSE {}),
                               !.lgFail = pass.lgFail \/ rejected,
                               !.liveFailed = pass.liveFailed \/ (rejected /\ t.list = "live")]
             rec == {x \in tasks1 : x.gen = t.gen /\ x.list = "record"}
             live == {x \in tasks1 : x.gen = t.gen /\ x.list = "live"}
         IN  IF p.pc # "aux" THEN p
             ELSE IF rejected /\ t.list = "record" THEN Reject(p, "fetchsession")
             ELSE IF rec = {} /\ p.liveFailed THEN Reject(p, "fetchsession")
             ELSE IF rec = {} /\ live = {} THEN Finish(p, ents1)
             ELSE p

\* client.mts:238-259 inside the login of a fetch.
TaskRegionResp(t, outcome) ==
    /\ t \in tasks /\ t.pc = "lgRegion"
    /\ IF outcome = "found"
         THEN /\ region' = ToLower("DE")
              /\ baseUrl' = GatewayUrl
              /\ tasks' = (tasks \ {t}) \cup
                          {[t EXCEPT !.pc = "lgPost", !.vNet = t.vNet + 1,
                                     !.vLogin = t.vLogin + 1]}
              /\ sent' = {Req("login", GatewayUrl, defaults.sess, << t.dev, t.cls >>)}
              /\ SetPass(pass)
              /\ lastChk' = NoChk
         ELSE /\ tasks' = tasks \ {t}
              /\ SetPass(AfterTask(t, tasks \ {t}, entities, TRUE, FALSE))
              /\ sent' = {}
              /\ lastChk' = Chk(t, FALSE, "failed")
              /\ UNCHANGED << region, baseUrl >>
    /\ usrRet' = NoRet
    /\ UNCHANGED << rq, adapter, calls, defaults, session, issued, accountData, entities, usr >>

\* client.mts:315-353 inside the login of a fetch, then 711-721.
TaskLoginResp(t, resp) ==
    /\ t \in tasks /\ t.pc = "lgPost"
    /\ IF LoginOk(resp)
         THEN /\ issued < MaxLogins
              /\ issued' = issued + 1
              /\ session' = NewSession
              /\ defaults' = [sess |-> NewSession.id, baseURL |-> baseUrl]
              /\ tasks' = (tasks \ {t}) \cup
                          {[t EXCEPT !.pc = "wait"]}
              /\ sent' = {Req(t.cls, t.dev, NewSession.id, << t.dev, t.cls >>)}
              /\ lastChk' = Chk(t, TRUE, Resolved)
              /\ SetPass(pass)
         ELSE /\ tasks' = tasks \ {t}
              /\ SetPass(AfterTask(t, tasks \ {t}, entities, TRUE, FALSE))
              /\ sent' = {}
              /\ lastChk' = Chk(t, FALSE, Resolved)
              /\ UNCHANGED << issued, session, defaults >>
    /\ usrRet' = NoRet
    /\ UNCHANGED << rq, adapter, calls, region, baseUrl, accountData, entities, usr >>

\* client.mts:717-736: the request of a fetch is answered.
TaskResp(t, outcome) ==
    /\ t \in tasks /\ t.pc = "wait"
    /\ LET ents == IF outcome = "ok" THEN _handleDataResponse(entities, StubOf(accountData, t.dev), t.cls)
                   ELSE entities
       IN  /\ entities' = ents
           /\ tasks' = tasks \ {t}
           /\ SetPass(AfterTask(t, tasks \ {t}, ents, FALSE, outcome # "ok"))
    /\ sent' = {}
    /\ lastChk' = NoChk
    /\ usrRet' = NoRet
    /\ UNCHANGED << rq, adapter, calls, region, baseUrl, defaults, session, issued,
                    accountData, usr >>

\* ------------------------------------------------------------------------
\* Calls of the adapter that overlap a pass: login(), refreshSession(),
\* sendApiRequest(), logout()
\* ------------------------------------------------------------------------

IdleUsr ==
    [pc |-> "idle", op |-> "none", id |-> 0, action |-> "none", err |-> "none",
     \* what the call has done so far, and what isLoggedIn() says when it settles
     logged |-> FALSE, inv0 |-> FALSE, lg |-> FALSE, sb |-> FALSE,
     nreq |-> 0, vPre |-> "none", vNet |-> 0, vLogin |-> 0]

SetUsr(u) ==
    IF u.pc \in {"ok", "err"}
      THEN usr' = IdleUsr /\ usrRet' = [who |-> "usr", f |-> u]
      ELSE usr' = u /\ usrRet' = NoRet

\* client.mts:1081-1083
isLoggedIn(sess) == sess # NoSession

\* The call settles: what its promise carries, and what the adapter then sees.
Settle(u, pc, err, sess) == [u EXCEPT !.pc = pc, !.err = err, !.logged = isLoggedIn(sess)]

\* The device ids and the actions the adapter sends commands with.
CmdIds == {LitterId, FeederId, LitterId + FeederId + PetId}
CmdActions == {"start_action", "mode_action", "no_such_action"}

\* The tests of sendApiRequest() without the supported-devices test.
CmdPrecheckNoType(ents, id, action) ==
    IF id \notin EntityIds \/ ents[id] = NoEntity THEN "PetkitDeviceNotFoundError"
    ELSE IF action \notin ActionNames THEN "PetkitAPIError"
    ELSE "ok"

\* The tests of sendApiRequest() without the registry lookup.
CmdPrecheckNoLookup(ents, id, action) ==
    IF action \notin ActionNames THEN "PetkitAPIError"
    ELSE IF id \in EntityIds /\ ents[id] # NoEntity
            /\ ToLower(ents[id].nfoType) \notin SupportedDevices(action)
      THEN "PetkitUnsupportedActionError"
    ELSE "ok"

\* client.mts:852-872, the tests of sendApiRequest() before it asks for the
\* session headers (every entity of the registry has a device-info block).
CmdPrecheck(ents, id, action) ==
    IF id \notin EntityIds \/ ents[id] = NoEntity THEN "PetkitDeviceNotFoundError"
    ELSE IF action \notin ActionNames THEN "PetkitAPIError"
    ELSE IF ToLower(ents[id].nfoType) \notin SupportedDevices(action)
      THEN "PetkitUnsupportedActionError"
    ELSE "ok"

\* client.mts:279-313
UsrLogin ==
    /\ usr.pc = "idle"
    /\ calls < MaxCalls
    /\ calls' = calls + 1
    /\ SetUsr([IdleUsr EXCEPT !.op = "login", !.pc = LoginStartPc, !.nreq = 1])
    /\ session' = NoSession
    /\ baseUrl' = LoginStartBase(baseUrl)
    /\ sent' = {LoginStartReq("usr")}
    /\ lastChk' = NoChk
    /\ passRet' = NoRet
    /\ UNCHANGED << rq, adapter, region, defaults, issued, accountData, entities,
                    pass, tasks >>

\* client.mts:356-371
UsrRefresh ==
    /\ usr.pc = "idle"
    /\ calls < MaxCalls
    /\ calls' = calls + 1
    /\ LET u == [IdleUsr EXCEPT !.op = "refresh",
                                !.inv0 = (SessionState(session) # "valid")]
       IN  IF session = NoSession
             THEN /\ SetUsr(Settle(u, "err", "PetkitAPIError", session))
                  /\ sent' = {}
             ELSE /\ SetUsr([u EXCEPT !.pc = "wait", !.sb = TRUE,
                                      !.nreq = 1])
                  /\ sent' = {Req("refreshsession", "", session.id, "usr")}
    /\ lastChk' = NoChk
    /\ passRet' = NoRet
    /\ UNCHANGED << rq, adapter, region, baseUrl, defaults, session, issued,
                    accountData, entities, pass, tasks >>

\* constants.mts:356-363 for manual_feed_dual, `x || 1` on its two amounts;
\* of the other actions the model keeps the device id alone.
OrOne(n) == IF n = 0 THEN 1 ELSE n
NoSetting == [amount1 |-> 0, amount2 |-> 0]
getParams(action, id, setting) ==
    IF action = "manual_feed_dual"
      THEN [deviceId |-> id, amount1 |-> OrOne(setting.amount1),
            amount2 |-> OrOne(setting.amount2)]
      ELSE id

\* client.mts:847-886
sendApiRequest(id, action, setting) ==
    /\ usr.pc = "idle"
    /\ calls < MaxCalls
    /\ calls' = calls + 1
    /\ LET u == [IdleUsr EXCEPT !.op = "cmd", !.id = id, !.action = action,
                                !.inv0 = (SessionState(session) # "valid")]
           pre == CmdPrecheck(entities, id, action)
       IN  IF pre # "ok"
             THEN /\ SetUsr(Settle(u, "err", pre, session))
                  /\ sent' = {}
                  /\ lastChk' = NoChk
                  /\ UNCHANGED << session, baseUrl >>
           ELSE IF NeedsLogin(session)
             THEN /\ SetUsr([u EXCEPT !.pc = LoginStartPc, !.nreq = 1,
                                      !.vPre = SessionState(session),
                                      !.vNet = 1, !.vLogin = LoginStartLogins])
                  /\ session' = NoSession
                  /\ baseUrl' = LoginStartBase(baseUrl)
                  /\ sent' = {LoginStartReq("usr")}
                  /\ lastChk' = NoChk
           ELSE IF session = NoSession
             THEN /\ SetUsr(Settle(u, "err", "PetkitAPIError", session))
                  /\ sent' = {}
                  /\ lastChk' = ValidChk(session)
                  /\ UNCHANGED << session, baseUrl >>
           ELSE /\ SetUsr([u EXCEPT !.pc = "wait", !.sb = TRUE,
                                    !.nreq = 1])
                /\ sent' = {Req(action, getParams(action, id, setting), session.id, "usr")}
                /\ lastChk' = ValidChk(session)
                /\ UNCHANGED << session, baseUrl >>
    /\ passRet' = NoRet
    /\ UNCHANGED << rq, adapter, region, defaults, issued, accountData, entities,
                    pass, tasks >>

\* A command without settings, as the wrappers of the litter box and the
\* purifier send it.
UsrCommand(id, action) == sendApiRequest(id, action, NoSetting)

\* client.mts:965-967
feedManualDual(deviceId, amount1, amount2) ==
    sendApiRequest(deviceId, "manual_feed_dual",
                   [amount1 |-> amount1, amount2 |-> amount2])

\* client.mts:1041-1043; the mode travels in the kv field of the body, which
\* the requests of the model do not carry.
setPurifierMode(deviceId) == UsrCommand(deviceId, "mode_action")

\* client.mts:238-259 inside login() or the login of a command.
UsrRegionResp(outcome) ==
    /\ usr.pc = "lgRegion"
    /\ IF outcome = "found"
         THEN /\ region' = ToLower("DE")
              /\ baseUrl' = GatewayUrl
              /\ SetUsr([usr EXCEPT !.pc = "lgPost", !.nreq = usr.nreq + 1,
                                    !.vNet = usr.vNet + 1, !.vLogin = usr.vLogin + 1])
              /\ sent' = {Req("login", GatewayUrl, defaults.sess, "usr")}
              /\ lastChk' = NoChk
         ELSE /\ SetUsr(Settle(usr, "err", RegionError(outcome), session))
              /\ sent' = {}
              /\ lastChk' = IF usr.op = "cmd" THEN Chk(usr, FALSE, "failed") ELSE NoChk
              /\ UNCHANGED << region, baseUrl >>
    /\ passRet' = NoRet
    /\ UNCHANGED << rq, adapter, calls, defaults, session, issued, accountData, entities,
                    pass, tasks >>

\* client.mts:315-353 inside login() or the login of a command, then 874-886.
UsrLoginResp(resp) ==
    /\ usr.pc = "lgPost"
    /\ IF LoginOk(resp)
         THEN /\ issued < MaxLogins
              /\ issued' = issued + 1
              /\ session' = NewSession
              /\ defaults' = [sess |-> NewSession.id, baseURL |-> baseUrl]
              /\ IF usr.op = "login"
                   THEN /\ SetUsr(Settle(usr, "ok", "none", NewSession))
                        /\ sent' = {}
                        /\ lastChk' = NoChk
                   ELSE /\ SetUsr([usr EXCEPT !.pc = "wait", !.lg = TRUE, !.sb = TRUE,
                                              !.nreq = usr.nreq + 1])
                        /\ sent' = {Req(usr.action, usr.id, NewSession.id, "usr")}
                        /\ lastChk' = Chk(usr, TRUE, Resolved)
         ELSE /\ SetUsr(Settle(usr, "err", LoginError(resp), session))
              /\ sent' = {}
              /\ lastChk' = IF usr.op = "cmd" THEN Chk(usr, FALSE, Resolved) ELSE NoChk
              /\ UNCHANGED << issued, session, defaults >>
    /\ passRet' = NoRet
    /\ UNCHANGED << rq, adapter, calls, region, baseUrl, accountData, entities, pass, tasks >>

\* client.mts:373-390 (refreshSession) and 882-885 (sendApiRequest): the
\* request of the call is answered.
UsrResp(outcome) ==
    /\ usr.pc = "wait"
    /\ IF outcome = "fail"
         THEN /\ SetUsr(Settle(usr, "err", "PetkitAPIError", session))
              /\ UNCHANGED << session, issued, defaults >>
         ELSE IF usr.op = "refresh" /\ outcome = "ok"
           THEN /\ issued < MaxLogins
                /\ issued' = issued + 1
                /\ session' = NewSession
                /\ defaults' = [defaults EXCEPT !.sess = NewSession.id]
                /\ SetUsr(Settle(usr, "ok", "none", NewSession))
         ELSE /\ SetUsr(Settle(usr, "ok", "none", session))
              /\ UNCHANGED << session, issued, defaults >>
    /\ sent' = {}
    /\ lastChk' = NoChk
    /\ passRet' = NoRet
    /\ UNCHANGED << rq, adapter, calls, region, baseUrl, accountData, entities, pass, tasks >>

\* A logout that drops the session and leaves the request defaults alone.
logoutKeepDefaults ==
    /\ calls < MaxCalls
    /\ calls' = calls + 1
    /\ session' = NoSession
    /\ sent' = {}
    /\ lastChk' = NoChk
    /\ passRet' = NoRet
    /\ usrRet' = NoRet
    /\ UNCHANGED << rq, adapter, region, baseUrl, defaults, issued, accountData, entities,
                    pass, tasks, usr >>

\* A logout that also empties the registry.
logoutClearRegistry ==
    /\ calls < MaxCalls
    /\ calls' = calls + 1
    /\ session' = NoSession
    /\ defaults' = [sess |-> 0, baseURL |-> Unset]
    /\ entities' = [id \in EntityIds |-> NoEntity]
    /\ sent' = {}
    /\ lastChk' = NoChk
    /\ passRet' = NoRet
    /\ usrRet' = NoRet
    /\ UNCHANGED << rq, adapter, region, baseUrl, issued, accountData, pass, tasks, usr >>

\* client.mts:1085-1090
logout ==
    /\ calls < MaxCalls
    /\ calls' = calls + 1
    /\ session' = NoSession
    /\ defaults' = [sess |-> 0, baseURL |-> Unset]
    /\ sent' = {}
    /\ lastChk' = NoChk
    /\ passRet' = NoRet
    /\ usrRet' = NoRet
    /\ UNCHANGED << rq, adapter, region, baseUrl, issued, accountData, entities, pass,
                    tasks, usr >>

\* The clock advances by one unit.
Tick ==
    /\ session # NoSession
    /\ session.age < session.expiresIn
    /\ session' = [session EXCEPT !.age = session.age + 1]
    /\ sent' = {}
    /\ lastChk' = NoChk
    /\ passRet' = NoRet
    /\ usrRet' = NoRet
    /\ UNCHANGED << rq, adapter, calls, region, baseUrl, defaults, issued, accountData,
                    entities, pass, tasks, usr >>

\* ------------------------------------------------------------------------
\* A device of the adapter layer: BaseLitterBoxDevice.mts (the water
\* fountain's device.mts has the same polling code)
\* ------------------------------------------------------------------------

MaxTimers == 3      \* setInterval() calls of one device
MaxUpdates == 4     \* updateDeviceStatus() calls of one device

\* BaseLitterBoxDevice.mts:25-26, the device before onInit(): `init` is the
\* position of onInit(), `pollInterval` the handle the device holds (0 for
\* null), `timers` the interval timers the runtime keeps active, `results`
\* the updateDeviceStatus() calls in the order they started, each pending or
\* with its outcome, `available` what setAvailable() / setUnavailable() left.
IdleAdapter ==
    [init |-> "none", pollInterval |-> 0, timers |-> {}, made |-> 0,
     deleted |-> FALSE, results |-> << >>, available |-> "unset"]

adapterFixed == << rq, calls, region, baseUrl, defaults, session, issued, accountData,
                  entities, pass, tasks, usr, sent, passRet, usrRet, lastChk >>

\* BaseLitterBoxDevice.mts:199-204
stopPolling(a) ==
    IF a.pollInterval # 0
      THEN [a EXCEPT !.timers = @ \ {a.pollInterval}, !.pollInterval = 0]
      ELSE a

\* BaseLitterBoxDevice.mts:139-144, updateDeviceStatus() up to its first
\* await: the status request of the client is on its way.
updateDeviceStatus(a) == [a EXCEPT !.results = Append(@, "pending")]

\* BaseLitterBoxDevice.mts:185-197
startPolling(a) ==
    LET b == stopPolling(a)
    IN  updateDeviceStatus([b EXCEPT !.pollInterval = b.made + 1,
                                     !.timers = @ \cup {b.made + 1},
                                     !.made = b.made + 1])

CanPoll == adapter.made < MaxTimers /\ Len(adapter.results) < MaxUpdates

\* BaseLitterBoxDevice.mts:32-57: onInit() awaits registerCapabilityListeners()
\* and ensureCapabilities() before it starts polling; when a capability has
\* to be added the device waits for the runtime, otherwise it goes on in
\* the same turn.
onInit(adds) ==
    /\ adapter.init = "none"
    /\ CanPoll
    /\ adapter' = IF adds THEN [adapter EXCEPT !.init = "awaiting"]
                  ELSE startPolling([adapter EXCEPT !.init = "done"])
    /\ UNCHANGED adapterFixed

\* BaseLitterBoxDevice.mts:50-53: addCapability() has resolved, onInit() goes
\* on to startPolling().
onInitResume ==
    /\ adapter.init = "awaiting"
    /\ CanPoll
    /\ adapter' = startPolling([adapter EXCEPT !.init = "done"])
    /\ UNCHANGED adapterFixed

\* BaseLitterBoxDevice.mts:95-109: the runtime reports changed settings of a
\* device it holds.
onSettings(changedKeys) ==
    /\ adapter.init # "none"
    /\ ~adapter.deleted
    /\ CanPoll
    /\ adapter' = IF "poll_interval" \in changedKeys THEN startPolling(adapter)
                  ELSE adapter
    /\ UNCHANGED adapterFixed

\* BaseLitterBoxDevice.mts:115-118: the user deletes the device.
onDeleted ==
    /\ adapter.init # "none"
    /\ ~adapter.deleted
    /\ adapter' = [stopPolling(adapter) EXCEPT !.deleted = TRUE]
    /\ UNCHANGED adapterFixed

\* BaseLitterBoxDevice.mts:191-193: an active interval timer fires.
TimerFire(t) ==
    /\ t \in adapter.timers
    /\ Len(adapter.results) < MaxUpdates
    /\ adapter' = updateDeviceStatus(adapter)
    /\ UNCHANGED adapterFixed

\* BaseLitterBoxDevice.mts:144-174: the status request of update n has
\* settled; the update sets the capabilities and calls setAvailable(), or
\* its catch block calls setUnavailable().
UpdateSettle(n, outcome) ==
    /\ n \in 1..Len(adapter.results)
    /\ adapter.results[n] = "pending"
    /\ adapter' = [adapter EXCEPT !.results[n] = outcome,
                                  !.available = IF outcome = "ok" THEN "yes" ELSE "no"]
    /\ UNCHANGED adapterFixed

\* ------------------------------------------------------------------------
\* Specifications
\* ------------------------------------------------------------------------

vars == << rq, adapter, calls, region, baseUrl, defaults, session, issued, accountData,
           entities, pass, tasks, usr, sent, passRet, usrRet, lastChk >>

\* client.mts:79-109, the client the constructor leaves: no session, the
\* passport host for base URL, an empty registry.  The region is the constructor's argument in lower
\* case; the server's data is what the account holds.
InitClient ==
    /\ adapter = IdleAdapter
    /\ calls = 0
    /\ region \in {ToLower(r) : r \in {"CN", "DE"}}
    /\ baseUrl = PassportUrl
    /\ defaults = [sess |-> 0, baseURL |-> Unset]
    /\ session = NoSession
    /\ issued = 0
    /\ accountData = << >>
    /\ entities = [id \in EntityIds |-> NoEntity]
    /\ pass = IdlePass
    /\ tasks = {}
    /\ usr = IdleUsr
    /\ sent = {}
    /\ passRet = NoRet
    /\ usrRet = NoRet
    /\ lastChk = NoChk

Init == InitClient /\ InitRq

NextPass ==
    \/ PassStart
    \/ \E outcome \in RegionVerdicts : PassRegionResp(outcome)
    \/ \E resp \in LoginVerdicts : PassLoginResp(resp)
    \/ \E outcome \in Outcomes : PassAccountResp(outcome, ServerFamilies)
    \/ \E outcome \in Outcomes : PassPetResp(outcome)
    \/ \E outcome \in Outcomes, raws \in SUBSET DetailRecords :
           PassDetailResp(outcome, raws)

NextTask ==
    \/ \E t \in tasks, outcome \in RegionVerdicts : TaskRegionResp(t, outcome)
    \/ \E t \in tasks, resp \in LoginVerdicts : TaskLoginResp(t, resp)
    \/ \E t \in tasks, outcome \in Outcomes : TaskResp(t, outcome)

NextUsr ==
    \/ UsrLogin
    \/ UsrRefresh
    \/ \E id \in CmdIds, action \in CmdActions : UsrCommand(id, action)
    \/ \E outcome \in RegionOutcomes : UsrRegionResp(outcome)
    \/ \E resp \in LoginResponses : UsrLoginResp(resp)
    \/ \E outcome \in Outcomes : UsrResp(outcome)
    \/ logout

Next == NextPass \/ NextTask \/ NextUsr \/ Tick

Spec == Init /\ [][Next]_vars

\* The transport alone, under a client that makes one request.
InitRetry ==
    /\ InitRq
    /\ adapter = IdleAdapter
    /\ calls = 0
    /\ region = ToLower("DE")
    /\ baseUrl = PassportUrl
    /\ defaults = [sess |-> 0, baseURL |-> Unset]
    /\ session = NoSession
    /\ issued = 0
    /\ accountData = << >>
    /\ entities = [id \in EntityIds |-> NoEntity]
    /\ pass = IdlePass
    /\ tasks = {}
    /\ usr = IdleUsr
    /\ sent = {}
    /\ passRet = NoRet
    /\ usrRet = NoRet
    /\ lastChk = NoChk

SpecRetry == InitRetry /\ [][NextRetry]_vars

\* The classifier alone: the family list brings one device stub of any name
\* and model, and _fetchDeviceDetails() groups it under its type code.
NameKeywords ==
    {"litter", "pura", "feeder", "fresh", "fountain", "water", "purifier", "air", "max"}
StubModels == {"", "D5", "T4", "D4", "W5", "K2"}
Stubs == [deviceId : {LitterId}, deviceType : StubModels, deviceName : SUBSET NameKeywords]

\* client.mts:447-448, the family list is stored.
FamilyList(stub) ==
    /\ accountData = << >>
    /\ accountData' = << [deviceList |-> << stub >>, petList |-> << >>] >>
    /\ UNCHANGED << rq, adapter, calls, region, baseUrl, defaults, session, issued, entities,
                    pass, tasks, usr, sent, passRet, usrRet, lastChk >>

\* client.mts:519-523, the devices are grouped by their type codes.
Classify ==
    /\ accountData # << >>
    /\ pass.codes = << >>
    /\ pass' = [pass EXCEPT !.codes = GroupCodes(_collectDevices(accountData))]
    /\ UNCHANGED << rq, adapter, calls, region, baseUrl, defaults, session, issued, accountData,
                    entities, tasks, usr, sent, passRet, usrRet, lastChk >>

NextClassify == (\E stub \in Stubs : FamilyList(stub)) \/ Classify

SpecClassify == InitRetry /\ [][NextClassify]_vars

\* The client on the account with the purifier: passes, their fetches and the
\* commands of the adapter.
NextPurifier ==
    \/ PassStart
    \/ \E outcome \in RegionVerdicts : PassRegionResp(outcome)
    \/ \E resp \in LoginVerdicts : PassLoginResp(resp)
    \/ \E outcome \in Outcomes : PassAccountResp(outcome, PurifierFamilies)
    \/ \E outcome \in Outcomes : PassPetResp(outcome)
    \/ \E outcome \in Outcomes, raws \in SUBSET DetailRecords :
           PassDetailResp(outcome, raws)
    \/ NextTask
    \/ setPurifierMode(PurifierId)
    \/ \E outcome \in RegionVerdicts : UsrRegionResp(outcome)
    \/ \E resp \in LoginVerdicts : UsrLoginResp(resp)
    \/ \E outcome \in Outcomes : UsrResp(outcome)
    \/ Tick

SpecPurifier == Init /\ [][NextPurifier]_vars

\* The client on an account whose devices start no fetch, or on one without
\* families: passes one after the other, with the other public operations
\* (login, refresh, commands, logout) between.
MaxCachePasses == 3

NextCache ==
    \/ PassBegin(MaxCachePasses)
    \/ \E outcome \in RegionVerdicts : PassRegionResp(outcome)
    \/ \E resp \in LoginVerdicts : PassLoginResp(resp)
    \/ \E outcome \in Outcomes, families \in {FeederFamilies, << >>} :
           PassAccountResp(outcome, families)
    \/ \E outcome \in Outcomes : PassPetResp(outcome)
    \/ \E outcome \in Outcomes, raws \in SUBSET DetailRecords :
           PassDetailResp(outcome, raws)
    \/ UsrLogin
    \/ UsrRefresh
    \/ \E id \in CmdIds, action \in CmdActions : UsrCommand(id, action)
    \/ \E outcome \in RegionVerdicts : UsrRegionResp(outcome)
    \/ \E resp \in LoginVerdicts : UsrLoginResp(resp)
    \/ \E outcome \in Outcomes : UsrResp(outcome)
    \/ logout
    \/ Tick

SpecCache == Init /\ [][NextCache]_vars

\* Two getDevicesData() calls on one client.  The client has logged in and its
\* first pass has cached the account snapshot and stored the pet, the server
\* having had no data for the devices; its session stays valid.  `pass` holds
\* the frames of the two calls, the first being the one that starts first;
\* `last` of a frame is the set of the entities whose stored value the call
\* wrote last, and `passRet` tells whose values a step has replaced.
Calls == {1, 2}

IdleCall == [pc |-> "idle", idx |-> 0, codes |-> << >>, last |-> {}]

InitOverlap ==
    /\ InitRq
    /\ adapter = IdleAdapter
    /\ calls = 0
    /\ region = ToLower("CN")
    /\ baseUrl = ChinaSrv
    /\ defaults = [sess |-> 1, baseURL |-> ChinaSrv]
    /\ session = [id |-> 1, age |-> 0, expiresIn |-> SessionTtl]
    /\ issued = 1
    /\ accountData = ServerFamilies
    /\ entities = AddPetDetails(AddPets([id \in EntityIds |-> NoEntity], ServerFamilies),
                                ServerFamilies)
    /\ pass = [g \in Calls |-> IdleCall]
    /\ tasks = {}
    /\ usr = IdleUsr
    /\ sent = {}
    /\ passRet = NoRet
    /\ usrRet = NoRet
    /\ lastChk = NoChk

overlapFixed == << rq, adapter, calls, region, baseUrl, defaults, session, issued,
                   accountData, usr, usrRet, lastChk >>

Written(old, new) == {id \in EntityIds : new[id] # old[id]}

\* The frames after call g has written the entities `ids`.
Wrote(frames, g, ids) ==
    [h \in Calls |-> [frames[h] EXCEPT !.last = IF h = g THEN @ \cup ids ELSE @ \ ids]]

Replaced(g, ids) ==
    [who |-> "write", gen |-> g,
     over |-> {id \in ids : \E h \in Calls \ {g} : id \in pass[h].last}]

\* A call that joins a call in progress instead of fetching by itself.
getDevicesDataGuarded(g) ==
    /\ pass[g].pc = "idle"
    /\ g > 1 => pass[g - 1].pc # "idle"
    /\ LET codes == GroupCodes(_collectDevices(accountData))
           busy == \E h \in Calls : pass[h].pc \in {"wait", "aux"}
       IN  /\ pass' = [pass EXCEPT ![g] = [IdleCall EXCEPT
                           !.pc = IF busy THEN "done" ELSE "wait",
                           !.idx = IF busy THEN 0 ELSE 1,
                           !.codes = IF busy THEN << >> ELSE codes]]
           /\ sent' = IF busy THEN {}
                      ELSE {Req("owndevices", codes[1], session.id, g)}
    /\ passRet' = NoRet
    /\ UNCHANGED << overlapFixed, entities, tasks >>

\* client.mts:489-497 with 517-532: call g of getDevicesData() starts; the
\* snapshot is cached and the session valid, so it sends the detail request
\* of the first type code.
getDevicesData(g) ==
    /\ pass[g].pc = "idle"
    /\ g > 1 => pass[g - 1].pc # "idle"
    /\ LET codes == GroupCodes(_collectDevices(accountData))
       IN  /\ pass' = [pass EXCEPT ![g] = [IdleCall EXCEPT !.pc = "wait", !.idx = 1,
                                                          !.codes = codes]]
           /\ sent' = {Req("owndevices", codes[1], session.id, g)}
    /\ passRet' = NoRet
    /\ UNCHANGED << overlapFixed, entities, tasks >>

\* client.mts:525-577 and 503-515: a detail request of call g is answered;
\* after the last one the fetches of the call start.
_fetchDeviceDetails(g, outcome, detailedDevices) ==
    /\ pass[g].pc = "wait"
    /\ detailedDevices \in DetailLists(pass[g].codes[pass[g].idx])
    /\ outcome # "ok" => detailedDevices = {}
    /\ LET f == pass[g]
           ents == IF outcome = "ok"
                     THEN MergeDetail(entities, accountData, f.codes[f.idx], detailedDevices)
                     ELSE entities
           ids == Written(entities, ents)
           specs == _prepareTasks(_collectDevices(accountData))
       IN  /\ entities' = ents
           /\ passRet' = Replaced(g, ids)
           /\ IF f.idx < Len(f.codes)
                THEN /\ pass' = Wrote([pass EXCEPT ![g].idx = f.idx + 1], g, ids)
                     /\ sent' = {Req("owndevices", f.codes[f.idx + 1], session.id, g)}
                     /\ tasks' = tasks
                ELSE /\ pass' = Wrote([pass EXCEPT ![g].pc = "aux"], g, ids)
                     /\ sent' = {Req(t.cls, t.dev, session.id, g) : t \in specs}
                     /\ tasks' = tasks \cup
                            {[gen |-> g, dev |-> t.dev, cls |-> t.cls, list |-> t.list]
                                 : t \in specs}
    /\ UNCHANGED overlapFixed

\* client.mts:717-736 and 511-514: a fetch of call g is answered; the call
\* resolves when the last fetch of its record and live lists has settled.
_fetchDeviceData(t, outcome) ==
    /\ t \in tasks
    /\ LET ents == IF outcome = "ok"
                     THEN _handleDataResponse(entities, StubOf(accountData, t.dev), t.cls)
                     ELSE entities
           ids == Written(entities, ents)
           left == {x \in tasks \ {t} : x.gen = t.gen /\ x.list # "main"}
       IN  /\ entities' = ents
           /\ passRet' = Replaced(t.gen, ids)
           /\ tasks' = tasks \ {t}
           /\ pass' = Wrote([pass EXCEPT ![t.gen].pc =
                                IF @ = "aux" /\ left = {} THEN "done" ELSE @],
                            t.gen, ids)
    /\ sent' = {}
    /\ UNCHANGED overlapFixed

NextOverlap ==
    \/ \E g \in Calls : getDevicesData(g)
    \/ \E g \in Calls, outcome \in Outcomes, raws \in SUBSET DetailRecords :
           _fetchDeviceDetails(g, outcome, raws)
    \/ \E t \in tasks, outcome \in Outcomes : _fetchDeviceData(t, outcome)

SpecOverlap == InitOverlap /\ [][NextOverlap]_vars

\* The status projections and the dual feed on a logged-in client in whose
\* registry the detail phase has stored one device, the fields of its state
\* spread into the entity (client.mts:544-567).  A field of a stored device is missing, null or
\* a number up to MaxLevel; the feeder's info block names the family code the
\* detail phase wrote or the model a main fetch wrote.
MaxLevel == 1
MaxAmount == 2

Absent == [k |-> "absent", v |-> 0]
FieldValues == {Absent, [k |-> "null", v |-> 0]} \cup [k : {"num"}, v : 0..MaxLevel]

StoredDevices ==
    [type : {"Litter"}, nfoType : {"t4"}, nfoId : {LitterId},
     sandPercent : FieldValues, sand_percent : FieldValues]
    \cup [type : {"Feeder"}, nfoType : {"d4", "D4S"}, nfoId : {FeederId},
          batteryPower : FieldValues, battery_power : FieldValues,
          battery : FieldValues, food : FieldValues, food1 : FieldValues]
    \cup [type : {"WaterFountain"}, nfoType : {"w5"}, nfoId : {LitterId},
          filterPercent : FieldValues, filter_percent : FieldValues]

\* `a || b || ... || default`: a zero is passed over like a missing field.
CoalesceTruthy(fields, default) ==
    LET held == {i \in 1..Len(fields) : fields[i].k = "num" /\ fields[i].v # 0}
    IN  IF held = {} THEN default
        ELSE fields[CHOOSE i \in held : \A j \in held : i <= j].v

\* `a ?? b ?? ... ?? default`: the first operand that is neither undefined
\* nor null.
Coalesce(fields, default) ==
    LET held == {i \in 1..Len(fields) : fields[i].k = "num"}
    IN  IF held = {} THEN default
        ELSE fields[CHOOSE i \in held : \A j \in held : i <= j].v

\* client.mts:915-941, the fields of the three projections that are read
\* through a list of variants.
StatusOf(device) ==
    CASE device.type = "Litter" ->
             [litterLevel |-> Coalesce(<< device.sandPercent, device.sand_percent >>, 0)]
      [] device.type = "Feeder" ->
             [batteryLevel |-> Coalesce(<< device.batteryPower, device.battery_power,
                                          device.battery >>, 0),
              foodLevel |-> Coalesce(<< device.food, device.food1 >>, 0)]
      [] device.type = "WaterFountain" ->
             [filterLife |-> Coalesce(<< device.filterPercent, device.filter_percent >>, 100)]

\* client.mts:915-941: getLitterStatus(), getFeederStatus() or
\* getFountainStatus() on the stored device, once getDevicesData() has
\* resolved and left the entity as it was.
getStatus(id) ==
    /\ usr.pc = "idle"
    /\ entities[id] # NoEntity
    /\ usrRet' = [who |-> "status", id |-> id, f |-> StatusOf(entities[id])]
    /\ sent' = {}
    /\ UNCHANGED << rq, adapter, calls, region, baseUrl, defaults, session, issued,
                    accountData, entities, pass, tasks, usr, passRet, lastChk >>

InitWrappers ==
    /\ InitRq
    /\ adapter = IdleAdapter
    /\ calls = 0
    /\ region = ToLower("CN")
    /\ baseUrl = ChinaSrv
    /\ defaults = [sess |-> 1, baseURL |-> ChinaSrv]
    /\ session = [id |-> 1, age |-> 0, expiresIn |-> SessionTtl]
    /\ issued = 1
    /\ accountData = << >>
    /\ \E device \in StoredDevices :
           entities = [id \in EntityIds |-> IF id = device.nfoId THEN device ELSE NoEntity]
    /\ pass = IdlePass
    /\ tasks = {}
    /\ usr = IdleUsr
    /\ sent = {}
    /\ passRet = NoRet
    /\ usrRet = NoRet
    /\ lastChk = NoChk

NextWrappers ==
    \/ \E id \in {LitterId, FeederId} : getStatus(id)
    \/ \E amount1, amount2 \in 0..MaxAmount : feedManualDual(FeederId, amount1, amount2)
    \/ \E outcome \in Outcomes : UsrResp(outcome)

SpecWrappers == InitWrappers /\ [][NextWrappers]_vars

\* One device of the adapter layer from its construction to its deletion.
NextAdapter ==
    \/ \E adds \in BOOLEAN : onInit(adds)
    \/ onInitResume
    \/ \E changedKeys \in {{"poll_interval"}, {"high_waste_threshold"}} :
           onSettings(changedKeys)
    \/ onDeleted
    \/ \E t \in adapter.timers : TimerFire(t)
    \/ \E n \in 1..MaxUpdates, outcome \in {"ok", "fail"} : UpdateSettle(n, outcome)

SpecAdapter == InitRetry /\ [][NextAdapter]_vars

\* The session manager alone: a client of any configured region on which the
\* adapter calls login(), refreshSession() and logout() while the clock runs.
ConfiguredRegions == {"CN", "cn", "Cn", "China", "CHINA", "DE", "Germany"}

InitLogin ==
    /\ InitRq
    /\ adapter = IdleAdapter
    /\ calls = 0
    /\ region \in {ToLower(r) : r \in ConfiguredRegions}
    /\ baseUrl = PassportUrl
    /\ defaults = [sess |-> 0, baseURL |-> Unset]
    /\ session = NoSession
    /\ issued = 0
    /\ accountData = << >>
    /\ entities = [id \in EntityIds |-> NoEntity]
    /\ pass = IdlePass
    /\ tasks = {}
    /\ usr = IdleUsr
    /\ sent = {}
    /\ passRet = NoRet
    /\ usrRet = NoRet
    /\ lastChk = NoChk

NextLogin ==
    \/ UsrLogin
    \/ UsrRefresh
    \/ \E outcome \in Outcomes : UsrResp(outcome)
    \/ \E outcome \in RegionOutcomes : UsrRegionResp(outcome)
    \/ \E resp \in LoginResponses : UsrLoginResp(resp)
    \/ logout
    \/ Tick

SpecLogin == InitLogin /\ [][NextLogin]_vars

\* ------------------------------------------------------------------------
\* Properties of the transport (SpecRetry)
\* ------------------------------------------------------------------------

C4Delays == << 1000, 2000, 4000, 8000, 16000 >>

TransientAsStated(e) ==
    \/ e.code \in {"ECONNABORTED", "ENOTFOUND", "ECONNRESET"}
    \/ (e.response /\ e.status >= 500)

\* C4: for a request that keeps failing with a transient error the delays
\* before the successive retries are 1000, 2000, 4000, 8000, 16000 ms; there
\* are at most five retries (six attempts), and a transient failure reaches
\* the caller only after the fifth retry.
C4_BackoffSchedule ==
    /\ Len(rq.delays) <= Len(C4Delays)
    /\ \A i \in 1..Len(rq.delays) : rq.delays[i] = C4Delays[i]
    /\ rq.attempts <= Len(C4Delays) + 1
    /\ (rq.phase = "rejected" /\ rq.lastErr.hasConfig /\ TransientAsStated(rq.lastErr))
         => (rq.retry = Len(C4Delays) /\ rq.attempts = Len(C4Delays) + 1
             /\ rq.delays = C4Delays)

C4_Exhausted ==
    /\ rq.phase = "rejected"
    /\ TransientAsStated(rq.lastErr)
    /\ rq.delays = C4Delays
    /\ rq.attempts = Len(C4Delays) + 1

NotRetriedAsStated(e) ==
    \/ (e.response /\ e.status >= 400 /\ e.status < 500)
    \/ (e.code \notin {"ECONNABORTED", "ENOTFOUND", "ECONNRESET"}
          /\ ~(e.response /\ e.status >= 500))

\* C5: a request whose last failure is an HTTP 4xx status, or is neither a
\* connection timeout, a DNS failure, a connection reset nor a status of 500
\* or more, is rejected at once: it is not waiting for a retry and not in
\* flight again, and that failure added no delay and no attempt.
C5_RejectedAtOnce ==
    (rq.lastErr # NoError /\ NotRetriedAsStated(rq.lastErr))
        => /\ rq.phase = "rejected"
           /\ Len(rq.delays) = rq.retry
           /\ rq.attempts = rq.retry + 1

C5_ClientErrorRejected ==
    /\ rq.phase = "rejected"
    /\ rq.lastErr.response
    /\ rq.lastErr.status = 404
    /\ rq.attempts = 1
    /\ rq.delays = << >>

RECURSIVE Contains(_, _)
Contains(line, text) ==
    IF Len(line) < Len(text) THEN FALSE
    ELSE SubSeq(line, 1, Len(text)) = text \/ Contains(Tail(line), text)

\* C19 as stated: no line logged for a request or a response holds a whole
\* session token or the value of the password parameter of the login body.
C19_AsStated ==
    \A line \in rq.log :
        /\ \A t \in SessionTokens : ~Contains(line, t)
        /\ ~Contains(line, PasswordDigest)

\* ------------------------------------------------------------------------
\* Properties of the client (Spec)
\* ------------------------------------------------------------------------

\* C1 as stated: a check that finds a session younger than its expiresIn
\* sends no request, and a check that finds an expired session sends exactly
\* one login request.
C1_AsStated ==
    /\ lastChk.pre = "valid" => lastChk.net = 0
    /\ lastChk.pre = "expired" => lastChk.login = 1

\* C1: a check that finds a session younger than its expiresIn sends no
\* request; a check that finds an expired session runs login() once, which
\* sends exactly one login POST when the region resolves (alone for the
\* domestic region, after one directory request otherwise) and only the
\* directory request, and no login POST, when the region does not resolve.
C1_ValidateSession ==
    /\ lastChk.pre = "valid" => (lastChk.net = 0 /\ lastChk.ok)
    /\ lastChk.pre = "expired" =>
         /\ lastChk.reg \in {"domestic", "found", "failed"}
         /\ lastChk.reg = "domestic" => (lastChk.login = 1 /\ lastChk.net = 1)
         /\ lastChk.reg = "found" => (lastChk.login = 1 /\ lastChk.net = 2)
         /\ lastChk.reg = "failed" => (lastChk.login = 0 /\ lastChk.net = 1 /\ ~lastChk.ok)

C1_ExpiredRegionFailed ==
    /\ lastChk.pre = "expired"
    /\ lastChk.reg = "failed"
    /\ lastChk.login = 0

UnsupportedCase(id, action) ==
    /\ id \in EntityIds
    /\ entities[id] # NoEntity
    /\ action \in ActionNames
    /\ ToLower(entities[id].nfoType) \notin SupportedDevices(action)

\* C2: a sendApiRequest(id, action) call for an action of the table that the
\* entity's device type does not support fails in the step of the call with
\* PetkitUnsupportedActionError, sends no request of any kind (whatever the
\* session is) and leaves session, defaults, base URL and registry unchanged.
C2_UnsupportedSendsNothing ==
    [][\A id \in CmdIds, action \in CmdActions :
          (UsrCommand(id, action) /\ UnsupportedCase(id, action))
              => /\ usrRet'.who = "usr"
                 /\ usrRet'.f.err = "PetkitUnsupportedActionError"
                 /\ usrRet'.f.nreq = 0
                 /\ sent' = {}
                 /\ UNCHANGED << session, defaults, baseUrl, region, issued,
                                 accountData, entities, tasks, pass >>]_vars

C2_UnsupportedWhileExpired ==
    /\ usrRet.who = "usr"
    /\ usrRet.f.op = "cmd"
    /\ usrRet.f.err = "PetkitUnsupportedActionError"
    /\ usrRet.f.inv0
    /\ session # NoSession

\* C3 as stated: a login answered with a vendor error object fails with the
\* error class of the object's code: 1 server busy, 5 session expired, 122 and
\* 125 authentication, any other code the generic API error.
C3_AsStated ==
    [][\A resp \in LoginResponses :
          (UsrLoginResp(resp) /\ resp.body = "error")
              => (usrRet'.who = "usr" /\ usrRet'.f.err = CodeToError(resp.code))]_vars

\* C6 as stated: while a login() call is in progress the client holds no
\* session, and when a login() call has failed isLoggedIn() is false.
C6_AsStated ==
    /\ (usr.op = "login" /\ usr.pc \in {"lgRegion", "lgPost"}) => session = NoSession
    /\ (usrRet.who = "usr" /\ usrRet.f.op = "login" /\ usrRet.f.pc = "err")
         => ~usrRet.f.logged

LoginFirst(f) == (f.inv0 /\ f.sb) => f.lg

C8_AsStated ==
    (passRet.who = "pass" /\ passRet.f.stage = "aux") => passRet.f.pc = "done"

\* C9 as stated: when the pass of getLitterStatus(LitterId) got a detail record
\* of the litter box, the wasteLevel returned is the record's state.box, or 0
\* when the record has none.
C9_AsStated ==
    (passRet.who = "pass" /\ passRet.f.pc = "done")
        => \A raw \in passRet.f.seen :
              raw.id = LitterId
                  => getLitterStatus(passRet.f.ret, LitterId) =
                         [kind |-> "status",
                          wasteLevel |-> IF raw.box.has THEN raw.box.v ELSE 0]

\* C10 as stated: after the first pass of a client, in which every request
\* succeeded, getDevices() returns one entity per pet of the account snapshot
\* and one per device stub whose id was in a detail response and no other, each
\* with the device-info block the ingestion of the pet or of the detail built.
C10_AsStated ==
    (passRet.who = "pass" /\ passRet.f.pc = "done" /\ passRet.f.gen = 1
       /\ passRet.f.failed = {})
        => /\ DOMAIN getDevices(passRet.f.ret) =
                  {pet.petId : pet \in SeqRange(CollectPets(accountData))}
                      \cup {raw.id : raw \in passRet.f.seen}
           /\ \A id \in DOMAIN getDevices(passRet.f.ret) :
                  getDevices(passRet.f.ret)[id].src \in {"pet", "detail"}

\* C11 as stated: a command whose POST fails in transport, or is answered
\* without a result (an error object in its place), fails.
C11_AsStated ==
    [][\A outcome \in Outcomes :
          (UsrResp(outcome) /\ usr.op = "cmd" /\ outcome # "ok")
              => (usrRet'.who = "usr" /\ usrRet'.f.pc = "err"
                  /\ usrRet'.f.err = "PetkitAPIError")]_vars

NoEntityCase(id) == id \notin EntityIds \/ entities[id] = NoEntity

C13_AsStated ==
    [][\A id \in CmdIds, action \in CmdActions :
          (UsrCommand(id, action) /\ ~NoEntityCase(id) /\ action \notin ActionNames)
              => /\ usrRet'.who = "usr"
                 /\ usrRet'.f.err = "PetkitUnsupportedActionError"
                 /\ sent' = {}]_vars

\* C14: when the pass of getDeviceStatus(id), or of a status projection built
\* on it, has resolved and the registry holds no entity under id, the call
\* fails with PetkitDeviceNotFoundError; with an entity it returns it.
C14_AbsentAfterPass ==
    (passRet.who = "pass" /\ passRet.f.pc = "done")
        => \A id \in CmdIds :
              IF id \notin EntityIds \/ passRet.f.ret[id] = NoEntity
                THEN /\ getDeviceStatus(passRet.f.ret, id).kind
                            = "PetkitDeviceNotFoundError"
                     /\ getLitterStatus(passRet.f.ret, id).kind
                            = "PetkitDeviceNotFoundError"
                ELSE getDeviceStatus(passRet.f.ret, id)
                         = [kind |-> "entity", e |-> passRet.f.ret[id]]

C14_LitterBoxMissing ==
    /\ passRet.who = "pass"
    /\ passRet.f.pc = "done"
    /\ passRet.f.ret[LitterId] = NoEntity
    /\ passRet.f.ret[PetId] # NoEntity
    /\ getLitterStatus(passRet.f.ret, LitterId).kind = "PetkitDeviceNotFoundError"

\* C15 as stated: when the directory answers a login of a non-domestic region
\* with a list that holds no entry for the region, the login fails with
\* PetkitRegionalServerNotFoundError, no login POST goes out, the base URL
\* stays as it was and the client holds no session afterwards.
C15_AsStated ==
    [][(UsrRegionResp("notfound") /\ ~IsDomestic(region))
          => /\ usrRet'.who = "usr"
             /\ usrRet'.f.err = "PetkitRegionalServerNotFoundError"
             /\ usrRet'.f.vLogin = 0
             /\ sent' = {}
             /\ baseUrl' = baseUrl
             /\ session' = NoSession
             /\ ~usrRet'.f.logged]_vars

\* C17: a request to the session-refresh endpoint is only ever sent by a
\* refreshSession() call of the adapter; a validity check that finds the
\* session absent or expired runs login(): region resolution and the login
\* POST, never the refresh.
C17_RefreshOnlyOnDemand ==
    /\ \A r \in sent :
          r.ep = "refreshsession"
              => (r.by = "usr" /\ usr.op = "refresh" /\ usr.pc = "wait")
    /\ lastChk.pre \in {"absent", "expired"}
          => lastChk.reg \in {"domestic", "found", "failed"}

C17_ExpiredCheckLoggedIn ==
    /\ lastChk.pre = "expired"
    /\ lastChk.login = 1
    /\ lastChk.ok
    /\ \A r \in sent : r.ep # "refreshsession"

LoginRequests == {"login", "regionservers"}

\* C18: logout() leaves the client without a session and its request defaults
\* without session headers and base URL; a pass or a command that starts
\* while the client holds no session first sends the requests of a login and
\* nothing else; and no session-bearing request ever goes out without the
\* token of a session a login or a refresh has installed.
C18_LogoutThenLogin ==
    [][/\ logout => (session' = NoSession
                      /\ defaults' = [sess |-> 0, baseURL |-> Unset])
       /\ (session = NoSession
            /\ (PassStart
                  \/ \E id \in CmdIds, action \in CmdActions :
                        UsrCommand(id, action)
                            /\ CmdPrecheck(entities, id, action) = "ok"))
            => (sent' # {} /\ \A r \in sent' : r.ep \in LoginRequests)
       /\ \A r \in sent' :
            r.ep \notin LoginRequests => (r.tok >= 1 /\ r.tok <= issued')]_vars

C18_CommandAfterLogout ==
    /\ usr.op = "cmd"
    /\ usr.pc \in {"lgRegion", "lgPost"}
    /\ usr.vPre = "absent"
    /\ issued >= 1
    /\ defaults = [sess |-> 0, baseURL |-> Unset]
    /\ \A r \in sent : r.ep \in LoginRequests

\* C21 as stated: when getDevicesData() has resolved, no fetch the pass
\* launched is still in flight.
C21_AsStated ==
    (passRet.who = "pass" /\ passRet.f.pc = "done")
        => \A t \in tasks : t.gen # passRet.f.gen

\* C22 as stated: the answer to a fetch of the auxiliary phase leaves every
\* entity of the registry in place with its type, its device-info block and
\* its state fields; it sets only the record, statistics, graph and live
\* fields.
C22_AsStated ==
    [][\A t \in tasks, outcome \in Outcomes :
          TaskResp(t, outcome)
              => \A id \in EntityIds :
                    entities[id] # NoEntity
                        => /\ entities'[id] # NoEntity
                           /\ entities'[id].type = entities[id].type
                           /\ entities'[id].nfoType = entities[id].nfoType
                           /\ entities'[id].nfoId = entities[id].nfoId
                           /\ entities'[id].box = entities[id].box
                           /\ entities'[id].src = entities[id].src]_vars

Awaited == {"record", "live"}

\* C23: while a pass runs, fetches of it exist only once every detail request
\* of the pass has been sent and answered (the pass is in its auxiliary
\* stage); and when the statistics phase of a pass has run, no fetch of its
\* record and live lists is still in flight.
C23_PhasesInSequence ==
    /\ \A t \in tasks :
          (pass.pc # "idle" /\ t.gen = pass.gen)
              => /\ pass.pc = "aux"
                 /\ pass.asked = SeqRange(pass.codes)
                 /\ pass.idx = Len(pass.codes)
    /\ ~pass.statsTasks.ran
    /\ (passRet.who = "pass" /\ passRet.f.statsTasks.ran)
          => \A t \in tasks : t.gen = passRet.f.gen => t.list \notin Awaited

C23_StatsAfterRecords ==
    /\ passRet.who = "pass"
    /\ passRet.f.statsTasks = [ran |-> TRUE, ids |-> {LitterId}]
    /\ \E t \in passRet.f.launched : t.list = "record"
    /\ \E t \in tasks : t.gen = passRet.f.gen /\ t.list = "main"

\* C26 as stated: of the fetches of a pass, at most one has a login POST in
\* flight at any time.
C26_AsStated ==
    \A g \in 1..MaxPasses :
        Cardinality({t \in tasks : t.gen = g /\ t.pc = "lgPost"}) <= 1

\* C30: every entity of the registry was built by the ingestion of a pet, of
\* a detail record or of the answer to a main fetch, each of which gives it a
\* device-info block, and the deviceId of that block is the key the entity is
\* stored under.
C30_InfoBlockOfKey ==
    \A id \in EntityIds :
        entities[id] # NoEntity
            => /\ entities[id].src \in {"pet", "detail", "main"}
               /\ entities[id].nfoId = id

C30_EveryBuilder ==
    /\ entities[PetId] # NoEntity /\ entities[PetId].src = "pet"
    /\ entities[FeederId] # NoEntity /\ entities[FeederId].src = "detail"
    /\ entities[LitterId] # NoEntity /\ entities[LitterId].src = "main"
    /\ \A id \in EntityIds : entities[id].nfoId = id

\* ------------------------------------------------------------------------
\* Properties of the session manager (SpecLogin)
\* ------------------------------------------------------------------------

DomesticAsStated(r) == r \in {"cn", "china"}

\* C16: on a client configured with "cn" or "china" in any letter case,
\* login() binds the base URL to the domestic gateway and its first request
\* is the login POST to that gateway, with no directory request; a login()
\* call that has settled has sent exactly that one request.
C16_DomesticOneRequest ==
    [][/\ (UsrLogin /\ DomesticAsStated(region))
            => /\ baseUrl' = ChinaSrv
               /\ sent' = {Req("login", ChinaSrv, defaults.sess, "usr")}
               /\ usr'.pc = "lgPost"
       /\ (usrRet'.who = "usr" /\ usrRet'.f.op = "login" /\ DomesticAsStated(region))
            => (usrRet'.f.nreq = 1 /\ baseUrl' = ChinaSrv /\ region' = region)]_vars

C16_ChinaLoggedIn ==
    /\ usrRet.who = "usr"
    /\ usrRet.f.op = "login"
    /\ usrRet.f.pc = "ok"
    /\ usrRet.f.nreq = 1
    /\ region = "china"
    /\ baseUrl = ChinaSrv
    /\ session # NoSession

\* C34 as stated: a request of a login (the region-directory request, the
\* login POST) never carries the token of a session in its session headers.
C34_AsStated ==
    \A r \in sent : r.ep \in LoginRequests => r.tok = 0

\* ------------------------------------------------------------------------
\* Properties of the classifier (SpecClassify)
\* ------------------------------------------------------------------------

RecognizedModels ==
    DEVICES_LITTER_BOX \cup DEVICES_FEEDER \cup DEVICES_WATER_FOUNTAIN
        \cup DEVICES_PURIFIER

Named(words) == accountData[1].deviceList[1].deviceName \cap words # {}

Classified ==
    /\ accountData # << >>
    /\ pass.codes # << >>
    /\ ToLower(accountData[1].deviceList[1].deviceType) \notin RecognizedModels

\* C20 as stated: of the stubs without a recognized model, one whose name
\* holds 'litter' or 'pura' gets the code t4, one whose name holds 'fountain'
\* or 'water' (and neither of the former) gets w5, and one whose name holds
\* none of the classifier's keywords gets t4.
C20_AsStated ==
    Classified =>
        /\ Named({"litter", "pura"}) => pass.codes = << "t4" >>
        /\ (Named({"fountain", "water"}) /\ ~Named({"litter", "pura"}))
              => pass.codes = << "w5" >>
        /\ ~Named(NameKeywords) => pass.codes = << "t4" >>

\* C20: of the stubs without a recognized model, one whose name holds 'litter'
\* or 'pura' gets t4; otherwise one whose name holds 'feeder' or 'fresh' gets
\* d4; otherwise one whose name holds 'fountain' or 'water' gets w5; one whose
\* name holds none of the classifier's keywords gets t4.
C20_ClassifiedByName ==
    Classified =>
        /\ Named({"litter", "pura"}) => pass.codes = << "t4" >>
        /\ (Named({"feeder", "fresh"}) /\ ~Named({"litter", "pura"}))
              => pass.codes = << "d4" >>
        /\ (Named({"fountain", "water"})
              /\ ~Named({"litter", "pura", "feeder", "fresh"}))
              => pass.codes = << "w5" >>
        /\ ~Named(NameKeywords) => pass.codes = << "t4" >>

C20_FreshWater ==
    /\ Classified
    /\ accountData[1].deviceList[1].deviceName = {"fresh", "water", "fountain"}
    /\ pass.codes = << "d4" >>

\* C32 as stated: a stub whose model is in one of the known family sets gets
\* the code of that family (t4 for a litter box, d4 for a feeder, w5 for a
\* fountain, k3 for a purifier), whatever keywords its name holds.
C32_AsStated ==
    (accountData # << >> /\ pass.codes # << >>) =>
        LET deviceType == ToLower(accountData[1].deviceList[1].deviceType)
        IN  /\ deviceType \in DEVICES_LITTER_BOX => pass.codes = << "t4" >>
            /\ deviceType \in DEVICES_FEEDER => pass.codes = << "d4" >>
            /\ deviceType \in DEVICES_WATER_FOUNTAIN => pass.codes = << "w5" >>
            /\ deviceType \in DEVICES_PURIFIER => pass.codes = << "k3" >>

\* ------------------------------------------------------------------------
\* Properties of the client on the purifier's account (SpecPurifier)
\* ------------------------------------------------------------------------

\* C25 as stated: once the registry holds the entity of a device, the type
\* code sendApiRequest() reads from its device-info block stays the same, and
\* so does the verdict of the tests of sendApiRequest() for every action.
C25_AsStated ==
    [][\A id \in EntityIds :
          (entities[id] # NoEntity /\ entities[id].src # "pet"
             /\ entities'[id] # NoEntity)
              => /\ ToLower(entities'[id].nfoType) = ToLower(entities[id].nfoType)
                 /\ \A action \in CmdActions :
                       CmdPrecheck(entities', id, action)
                           = CmdPrecheck(entities, id, action)]_vars

\* C27 as stated: setPurifierMode() on the entity the detail phase built for
\* a purifier passes the device-type test and sends its controlDevice POST,
\* after a login if the session calls for one.
C27_AsStated ==
    [][(setPurifierMode(PurifierId) /\ entities[PurifierId] # NoEntity
          /\ entities[PurifierId].src = "detail"
          /\ entities[PurifierId].type = "Purifier")
          => /\ usrRet'.who # "usr"
             /\ sent' # {}]_vars

\* ------------------------------------------------------------------------
\* Properties of the account snapshot (SpecCache)
\* ------------------------------------------------------------------------

\* C28 as stated: when a pass has failed in its pet-details stage, the client
\* caches no account snapshot and the registry holds nothing of the attempt.
C28_AsStated ==
    (passRet.who = "pass" /\ passRet.f.pc = "rejected" /\ passRet.f.stage = "petdet")
        => /\ accountData = << >>
           /\ \A id \in EntityIds : entities[id] = NoEntity

\* C29 as stated: a pass that started with a non-empty snapshot cached sends
\* neither the family-list nor the pet-details request; a pass that started
\* with none has sent the family-list request when it settles.
C29_AsStated ==
    /\ pass.cached => pass.snap = {}
    /\ passRet.who = "pass" =>
         IF passRet.f.cached THEN passRet.f.snap = {}
         ELSE "family" \in passRet.f.snap

LoginFailedFirst(f) == f.pc = "rejected" /\ f.stage = "account" /\ f.cause = "session"

\* C29: a pass that started with a non-empty snapshot cached sends neither
\* the family-list nor the pet-details request, whatever logins and logouts
\* came before it; a pass that started with none sends the family-list
\* request as soon as its session check has passed, and has sent it when it
\* settles unless the login of that check failed.
C29_SnapshotFetchedOnce ==
    /\ pass.cached => (pass.snap = {} /\ pass.stage \notin {"account", "petdet"})
    /\ (pass.pc = "wait" /\ ~pass.cached) => "family" \in pass.snap
    /\ passRet.who = "pass" =>
         IF passRet.f.cached THEN passRet.f.snap = {}
         ELSE ("family" \in passRet.f.snap \/ LoginFailedFirst(passRet.f))

C29_CachedAfterRelogin ==
    /\ passRet.who = "pass"
    /\ passRet.f.pc = "done"
    /\ passRet.f.cached
    /\ passRet.f.inv0 /\ passRet.f.lg
    /\ passRet.f.snap = {}
    /\ passRet.f.asked = {"d4"}
    /\ calls >= 1

\* ------------------------------------------------------------------------
\* Properties of two overlapping passes (SpecOverlap)
\* ------------------------------------------------------------------------

Running(g) == pass[g].pc \in {"wait", "aux"}

\* C24: a getDevicesData() call that starts while the other is still running
\* sends its own detail request in the step in which it starts and leaves the
\* running call and its fetches as they are; and a call replaces only values
\* of entities that the registry holds.
C24_NoPopulationGuard ==
    [][/\ \A g \in Calls :
            (getDevicesData(g) /\ \E h \in Calls \ {g} : Running(h))
                => /\ \E r \in sent' : r.by = g /\ r.ep = "owndevices"
                   /\ pass'[g].pc = "wait"
                   /\ \A h \in Calls \ {g} : pass'[h] = pass[h]
                   /\ tasks' = tasks
       /\ passRet'.who = "write"
            => \A id \in passRet'.over : entities[id] # NoEntity]_vars

\* The first call replaces what the second call has written.
C24_OlderReplacesNewer ==
    /\ passRet.who = "write"
    /\ passRet.gen = 1
    /\ LitterId \in passRet.over
    /\ Running(1) /\ Running(2)
    /\ entities[LitterId].src = "detail"

\* C33: the device-info block a detail answer leaves for a device it lists is
\* made of the answer alone (the type code asked for and the record's id),
\* whatever the registry held; so an answer that repeats the one the entity
\* was built from leaves the block as it was.
C33_DetailPhaseRepeatable ==
    [][\A g \in Calls, raws \in SUBSET DetailRecords :
           _fetchDeviceDetails(g, "ok", raws) =>
               \A raw \in raws :
                   /\ entities'[raw.id].nfoType = pass[g].codes[pass[g].idx]
                   /\ entities'[raw.id].nfoId = raw.id
                   /\ (entities[raw.id] # NoEntity /\ entities[raw.id].src = "detail"
                          /\ entities[raw.id].box = raw.box)
                        => /\ entities'[raw.id].nfoType = entities[raw.id].nfoType
                           /\ entities'[raw.id].nfoId = entities[raw.id].nfoId]_vars

\* The detail phase of the second call has ended after the first call was
\* done, and has built again the litter box the first call had stored.
C33_SecondPhaseRebuilt ==
    /\ pass[1].pc = "done"
    /\ pass[2].pc = "aux"
    /\ passRet.who = "write"
    /\ passRet.gen = 2
    /\ LitterId \in passRet.over
    /\ entities[LitterId].src = "detail"
    /\ entities[LitterId].nfoType = "t4"

\* ------------------------------------------------------------------------
\* Properties of the registry over public operations (SpecCache)
\* ------------------------------------------------------------------------

\* C31: no step of any public operation (login, logout, refresh, a pass, a
\* command) removes an id from the entity map: an id once stored is stored in
\* every later state, also after passes whose answers no longer list it.
C31_IdsNeverRemoved ==
    [][\A id \in EntityIds :
           entities[id] # NoEntity => entities'[id] # NoEntity]_vars

\* A third pass has settled after one whose detail answer listed the feeder;
\* the last answer listed nothing, a logout came between, the feeder is kept.
C31_KeptAfterEmptyPass ==
    /\ passRet.who = "pass"
    /\ passRet.f.gen = 3
    /\ passRet.f.pc = "done"
    /\ passRet.f.asked = {"d4"}
    /\ passRet.f.seen = {}
    /\ session # NoSession
    /\ calls >= 1
    /\ entities[FeederId] # NoEntity

\* ------------------------------------------------------------------------
\* Properties of the status projections and the dual feed (SpecWrappers)
\* ------------------------------------------------------------------------

Present(field) == field.k = "num"

FirstOf2(a, b, default) ==
    IF Present(a) THEN a.v ELSE IF Present(b) THEN b.v ELSE default

FirstOf3(a, b, c, default) == IF Present(a) THEN a.v ELSE FirstOf2(b, c, default)

\* C35: each projection returns the value of the first field of its list
\* that the entity holds (a null counting as missing), a zero being a
\* value like any other, and its default only when the entity holds none:
\* feeder battery batteryPower, battery_power, battery, else 0; feeder food
\* food, food1, else 0; litter level sandPercent, sand_percent, else 0;
\* fountain filter life filterPercent, filter_percent, else 100.
C35_FirstPresentField ==
    usrRet.who = "status" =>
        LET device == entities[usrRet.id]
            status == usrRet.f
        IN  /\ device.type = "Feeder" =>
                  /\ status.batteryLevel =
                         FirstOf3(device.batteryPower, device.battery_power,
                                  device.battery, 0)
                  /\ status.foodLevel = FirstOf2(device.food, device.food1, 0)
            /\ device.type = "Litter" =>
                  status.litterLevel = FirstOf2(device.sandPercent, device.sand_percent, 0)
            /\ device.type = "WaterFountain" =>
                  status.filterLife =
                      FirstOf2(device.filterPercent, device.filter_percent, 100)

\* A feeder whose batteryPower is 0 while battery_power is not, and whose
\* food is missing while food1 is 0: both levels are reported as 0.
C35_ZeroIsReturned ==
    /\ usrRet.who = "status"
    /\ entities[usrRet.id].type = "Feeder"
    /\ entities[usrRet.id].batteryPower = [k |-> "num", v |-> 0]
    /\ entities[usrRet.id].battery_power = [k |-> "num", v |-> MaxLevel]
    /\ entities[usrRet.id].food = Absent
    /\ entities[usrRet.id].food1 = [k |-> "num", v |-> 0]
    /\ entities[usrRet.id].battery = Absent
    /\ usrRet.f.batteryLevel = 0
    /\ usrRet.f.foodLevel = 0

\* C36 as stated: the request feedManualDual(deviceId, a1, a2) sends carries
\* amount1 = a1 and amount2 = a2, for all amounts from 0 on.
C36_AsStated ==
    [][\A a1, a2 \in 0..MaxAmount :
           (feedManualDual(FeederId, a1, a2) /\ sent' # {})
               => \A r \in sent' : r.arg.amount1 = a1 /\ r.arg.amount2 = a2]_vars

\* ------------------------------------------------------------------------
\* Properties of a device of the adapter layer (SpecAdapter)
\* ------------------------------------------------------------------------

\* C37 as stated: whatever onInit(), onSettings() and onDeleted() calls the
\* device has had, at most one interval timer is active, and none is active
\* once onDeleted() has run.
C37_AsStated ==
    /\ Cardinality(adapter.timers) <= 1
    /\ adapter.deleted => adapter.timers = {}

\* C38 as stated: once no status update is in flight, the device is
\* available exactly if the update that started last succeeded.
C38_AsStated ==
    (adapter.results # << >> /\ \A n \in 1..Len(adapter.results) :
                                   adapter.results[n] # "pending")
        => (adapter.available = "yes"
              <=> adapter.results[Len(adapter.results)] = "ok")

====
